---- MODULE Spec2Model ----
(***************************************************************************)
(* Model of the storage layer of the community server: the in-memory and   *)
(* the file-system DataAccessor, the NormalizedDataAccessor base and the   *)
(* DataAccessorBasedStore on top of them.                                  *)
(*                                                                         *)
(* A string is a sequence of tokens: "/" is the separator, every other     *)
(* token stands for a run of characters without a separator ("r" is the    *)
(* scheme and host of the base URL, ".meta" the metadata extension).       *)
(***************************************************************************)
EXTENDS Integers, Sequences, FiniteSets, TLC

VARIABLES backend, store, fs, uuids, last, streams, writers

vars == <<backend, store, fs, uuids, last, streams, writers>>

\* With([x \in {v} |-> e]) is e with x standing for the value v: a const of the code.
With(f) == f[CHOOSE x \in DOMAIN f : TRUE]

(***************************************************************************)
(* Strings                                                                 *)
(***************************************************************************)
endsWith(s, suffix) ==
  Len(s) >= Len(suffix) /\ SubSeq(s, Len(s) - Len(suffix) + 1, Len(s)) = suffix

startsWith(s, prefix) ==
  Len(s) >= Len(prefix) /\ SubSeq(s, 1, Len(prefix)) = prefix

slice(s, n) == SubSeq(s, n + 1, Len(s))

RECURSIVE trimTrailingSlashes(_)
trimTrailingSlashes(path) ==
  IF endsWith(path, <<"/">>)
  THEN trimTrailingSlashes(SubSeq(path, 1, Len(path) - 1))
  ELSE path

ensureTrailingSlash(path) == trimTrailingSlashes(path) \o <<"/">>

\* s.split('/').filter(part => part.length > 0)
RECURSIVE splitParts(_, _, _)
splitParts(s, cur, acc) ==
  IF s = <<>>
  THEN IF cur = <<>> THEN acc ELSE Append(acc, cur)
  ELSE IF Head(s) = "/"
       THEN splitParts(Tail(s), <<>>, IF cur = <<>> THEN acc ELSE Append(acc, cur))
       ELSE splitParts(Tail(s), Append(cur, Head(s)), acc)

nonEmptyParts(s) == splitParts(s, <<>>, <<>>)

(***************************************************************************)
(* Vocabulary                                                              *)
(***************************************************************************)
RDF_type == "rdf:type"
LDP_contains == "ldp:contains"
HTTP_slug == "http:slug"
CONTENT_TYPE == "contentType"
POSIX_size == "posix:size"
POSIX_mtime == "posix:mtime"
DCTERMS_modified == "dc:modified"
LIKES == "likes"

LDP_Container == <<"ldp:Container">>
LDP_BasicContainer == <<"ldp:BasicContainer">>
LDP_Resource == <<"ldp:Resource">>
INTERNAL_QUADS == <<"internal/quads">>
TEXT_TURTLE == <<"text/turtle">>
APPLICATION_OCTET_STREAM == <<"application/octet-stream">>

\* The base URL of the store and of both accessors, with its trailing slash.
base == <<"r", "/">>

(***************************************************************************)
(* RepresentationMetadata: an identifier and a set of quads                *)
(* <<subject, predicate, object>>.                                         *)
(***************************************************************************)
undefined == [undefined |-> TRUE]
isDefined(x) == "undefined" \notin DOMAIN x

newMetadata(identifier) == [identifier |-> identifier, quads |-> {}]

addQuads(metadata, quads) == [metadata EXCEPT !.quads = @ \cup quads]

getAll(metadata, predicate) ==
  {q[3] : q \in {x \in metadata.quads : x[1] = metadata.identifier /\ x[2] = predicate}}

removeAll(metadata, predicate) ==
  [metadata EXCEPT !.quads =
     {q \in @ : ~(q[1] = metadata.identifier /\ q[2] = predicate)}]

\* metadata.set(predicate, object): removeAll, then add
setValue(metadata, predicate, object) ==
  addQuads(removeAll(metadata, predicate), {<<metadata.identifier, predicate, object>>})

\* The identifier setter renames the subject of the quads about the old identifier.
setIdentifier(metadata, id) ==
  [identifier |-> id,
   quads |-> {IF q[1] = metadata.identifier THEN <<id, q[2], q[3]>> ELSE q : q \in metadata.quads}]

(***************************************************************************)
(* MetadataController                                                      *)
(***************************************************************************)
generateResourceQuads(subject, isContainer) ==
  IF isContainer
  THEN {<<subject, RDF_type, LDP_Container>>, <<subject, RDF_type, LDP_BasicContainer>>,
        <<subject, RDF_type, LDP_Resource>>}
  ELSE {<<subject, RDF_type, LDP_Resource>>}

generateContainerContainsResourceQuads(subject, childURIs) ==
  {<<subject, LDP_contains, uri>> : uri \in childURIs}

(***************************************************************************)
(* InMemoryDataAccessor.  A CacheEntry is a DataEntry [data, metadata] or  *)
(* a ContainerEntry [entries, metadata]; entries maps a name to its entry. *)
(* A Readable is the sequence of the chunks it delivers.                   *)
(***************************************************************************)
Mem_constructor ==
  [entries |-> <<>>,
   metadata |-> addQuads(newMetadata(base), generateResourceQuads(base, TRUE))]

isDataEntry(entry) == "data" \in DOMAIN entry

RECURSIVE entryAt(_, _)
entryAt(container, dir) ==
  IF dir = <<>> THEN container ELSE entryAt(container.entries[Head(dir)], Tail(dir))

\* The loop of getParentEntry: every part but the last names a container entry.
RECURSIVE walk(_, _)
walk(parent, parts) ==
  IF parts = <<>> THEN TRUE
  ELSE IF Head(parts) \notin DOMAIN parent.entries THEN FALSE
  ELSE IF isDataEntry(parent.entries[Head(parts)]) THEN FALSE
  ELSE walk(parent.entries[Head(parts)], Tail(parts))

\* The parent is named by the parts that lead to it; for the root identifier the
\* parent is a temporary object { entries: { root: this.store } }.
getParentEntry(st, identifier) ==
  With([parts \in {nonEmptyParts(slice(identifier, Len(base)))} |->
    IF Len(parts) = 0
    THEN [err |-> "none", root |-> TRUE, dir |-> <<>>, name |-> <<"root">>]
    ELSE IF walk(st, SubSeq(parts, 1, Len(parts) - 1))
         THEN [err |-> "none", root |-> FALSE, dir |-> SubSeq(parts, 1, Len(parts) - 1),
               name |-> parts[Len(parts)]]
         ELSE [err |-> "NotFound"]])

parentEntries(st, p) == IF p.root THEN (<<"root">> :> st) ELSE entryAt(st, p.dir).entries

getEntry(st, identifier) ==
  With([p \in {getParentEntry(st, identifier)} |->
    IF p.err # "none" THEN [err |-> p.err]
    ELSE With([entries \in {parentEntries(st, p)} |->
           IF p.name \notin DOMAIN entries THEN [err |-> "NotFound"]
           ELSE [err |-> "none", entry |-> entries[p.name]]])])

\* parent.entries[name] = entry
RECURSIVE assignEntry(_, _, _, _)
assignEntry(container, dir, name, entry) ==
  IF dir = <<>>
  THEN [container EXCEPT !.entries = (name :> entry) @@ @]
  ELSE [container EXCEPT !.entries[Head(dir)] = assignEntry(@, Tail(dir), name, entry)]

\* delete parent.entries[name]
RECURSIVE deleteEntry(_, _, _)
deleteEntry(container, dir, name) ==
  IF dir = <<>>
  THEN [container EXCEPT !.entries = [n \in DOMAIN @ \ {name} |-> @[n]]]
  ELSE [container EXCEPT !.entries[Head(dir)] = deleteEntry(@, Tail(dir), name)]

\* What a destination of source.pipe(destination) receives: every chunk, in order.
piped(readable) == [i \in 1..Len(readable) |-> readable[i]]

copyData(source) ==
  [streamOutput |-> piped(source.data), streamInternal |-> piped(source.data)]

(***************************************************************************)
(* The streams of copyData, chunk by chunk.  A stream holds the chunks it  *)
(* has buffered, whether its input has ended, the streams it is piped to,  *)
(* those of them it waits for to drain, and its high water mark.           *)
(* streams is [heap, data, outputs, received, order]: the streams that     *)
(* exist, the one that is the entry's data, the one each getData call      *)
(* returned, what each caller has read, and how each call was placed.      *)
(***************************************************************************)
noStreams == [heap |-> <<>>, data |-> 0, outputs |-> <<>>, received |-> <<>>, order |-> <<>>]

\* No setRepresentation call is under way.
noWriters == [identifier |-> <<>>, pc |-> <<>>]

\* The default highWaterMark of a stream in object mode, scaled down.
OutputHighWaterMark == 2

\* Number.MAX_SAFE_INTEGER, as the largest integer the model checker represents:
\* a mark that no buffer reaches.
MAX_SAFE_INTEGER == 2147483647

newStream(buffer, ended, highWaterMark) ==
  [buffer |-> buffer, ended |-> ended, pipes |-> <<>>, awaitDrain |-> {},
   highWaterMark |-> highWaterMark]

\* streamifyArray(chunks): every chunk is there to be read, and then the end.
streamifyArray(chunks) == newStream(chunks, TRUE, OutputHighWaterMark)

\* dest.write(chunk) returns false: the stream holds as much as its mark.
isFull(stream) == Len(stream.buffer) >= stream.highWaterMark

\* copyData with the one stream kept: source.data is piped to the stream that is
\* returned only, and stays the entry's data.
pipeCopyData_SharedHandle(st) ==
  LET out == Len(st.heap) + 1
      heap == Append(st.heap, newStream(<<>>, FALSE, OutputHighWaterMark))
  IN [st EXCEPT
        !.heap = [heap EXCEPT ![st.data].pipes = @ \o <<out>>],
        !.outputs = Append(@, out)]

\* copyData on the streams st: two PassThrough streams, source.data piped to both,
\* the internal one becomes source.data and the other is returned.
pipeCopyData(st) ==
  LET out == Len(st.heap) + 1
      int == Len(st.heap) + 2
      heap == st.heap \o <<newStream(<<>>, FALSE, OutputHighWaterMark),
                           newStream(<<>>, FALSE, MAX_SAFE_INTEGER)>>
  IN [st EXCEPT
        !.heap = [heap EXCEPT ![st.data].pipes = @ \o <<out, int>>],
        !.data = int,
        !.outputs = Append(@, out)]

\* A piped stream in flowing mode hands its next chunk to every destination and
\* pauses for the destinations whose write returned false.
canFlow(stream) ==
  stream.pipes # <<>> /\ stream.buffer # <<>> /\ stream.awaitDrain = {}

flow(heap, i) ==
  LET chunk == Head(heap[i].buffer)
      dests == {heap[i].pipes[k] : k \in DOMAIN heap[i].pipes}
      given == [j \in DOMAIN heap |->
                  IF j \in dests THEN [heap[j] EXCEPT !.buffer = Append(@, chunk)]
                  ELSE heap[j]]
  IN [given EXCEPT ![i].buffer = Tail(@),
                   ![i].awaitDrain = {j \in dests : isFull(given[j])}]

\* A piped stream that has handed on everything ends its destinations.
canEnd(heap, i) ==
  /\ heap[i].buffer = <<>>
  /\ heap[i].ended
  /\ \E k \in DOMAIN heap[i].pipes : ~heap[heap[i].pipes[k]].ended

endPipes(heap, i) ==
  LET dests == {heap[i].pipes[k] : k \in DOMAIN heap[i].pipes} IN
  [j \in DOMAIN heap |-> IF j \in dests THEN [heap[j] EXCEPT !.ended = TRUE] ELSE heap[j]]

\* The reader of stream i takes a chunk; once the stream is empty it has drained, and
\* the stream piped to it waits for it no more.
readChunk(heap, i) ==
  LET taken == [heap EXCEPT ![i].buffer = Tail(@)] IN
  IF taken[i].buffer = <<>>
  THEN [j \in DOMAIN taken |-> [taken[j] EXCEPT !.awaitDrain = @ \ {i}]]
  ELSE taken

generateMetadata(identifier, entry) ==
  With([metadata \in {IF isDefined(entry.metadata) THEN entry.metadata ELSE newMetadata(identifier)}
      |->
    IF ~isDataEntry(entry)
    THEN addQuads(metadata,
           generateContainerContainsResourceQuads(metadata.identifier,
             {identifier \o name \o
                (IF isDataEntry(entry.entries[name]) THEN <<>> ELSE <<"/">>) :
              name \in DOMAIN entry.entries}))
    ELSE metadata])

\* getData that hands a container entry to copyData, which has no data to pipe.
Mem_getData_NoKindCheck(st, identifier) ==
  With([e \in {getEntry(st, identifier)} |->
    IF e.err # "none" THEN [err |-> e.err, store |-> st]
    ELSE IF ~isDataEntry(e.entry) THEN [err |-> "TypeError", store |-> st]
    ELSE With([p \in {getParentEntry(st, identifier)} |->
         With([c \in {copyData(e.entry)} |->
           [err |-> "none", data |-> c.streamOutput,
            store |-> IF p.root THEN st
                      ELSE assignEntry(st, p.dir, p.name,
                                       [e.entry EXCEPT !.data = c.streamInternal])]])])])

Mem_getData(st, identifier) ==
  With([e \in {getEntry(st, identifier)} |->
    IF e.err # "none" THEN [err |-> e.err, store |-> st]
    ELSE IF ~isDataEntry(e.entry) THEN [err |-> "NotFound", store |-> st]
    ELSE With([p \in {getParentEntry(st, identifier)} |->
         With([c \in {copyData(e.entry)} |->
           [err |-> "none", data |-> c.streamOutput,
            store |-> IF p.root THEN st
                      ELSE assignEntry(st, p.dir, p.name,
                                       [e.entry EXCEPT !.data = c.streamInternal])]])])])

\* getMetadata without the comparison of the entry's kind with the trailing slash.
Mem_getMetadata_AnyShape(st, identifier) ==
  With([e \in {getEntry(st, identifier)} |->
    IF e.err # "none" THEN [err |-> e.err]
    ELSE [err |-> "none", metadata |-> generateMetadata(identifier, e.entry)]])

Mem_getMetadata(st, identifier) ==
  With([e \in {getEntry(st, identifier)} |->
    IF e.err # "none" THEN [err |-> e.err]
    ELSE IF isDataEntry(e.entry) = endsWith(identifier, <<"/">>) THEN [err |-> "NotFound"]
    ELSE [err |-> "none", metadata |-> generateMetadata(identifier, e.entry)]])

Mem_getNormalizedMetadata(st, identifier) ==
  With([e \in {getEntry(st, identifier)} |->
    IF e.err # "none" THEN [err |-> e.err]
    ELSE [err |-> "none", metadata |-> generateMetadata(identifier, e.entry)]])

\* arrayifyStream drains the incoming stream; streamifyArray makes the stored copy.
Mem_writeDataResource(st, identifier, data, metadata) ==
  With([p \in {getParentEntry(st, identifier)} |->
    IF p.err # "none" THEN [err |-> p.err, store |-> st]
    ELSE [err |-> "none",
          store |-> IF p.root THEN st
                    ELSE assignEntry(st, p.dir, p.name,
                                     [data |-> piped(data), metadata |-> metadata])]])

Mem_writeContainer(st, identifier, metadata) ==
  With([p \in {getParentEntry(st, identifier)} |->
    IF p.err # "none" THEN [err |-> p.err, store |-> st]
    ELSE [err |-> "none",
          store |-> IF p.root THEN st
                    ELSE assignEntry(st, p.dir, p.name,
                                     [entries |-> <<>>, metadata |-> metadata])]])

Mem_modifyResource(st, identifier) == [err |-> "Error", store |-> st]

Mem_deleteResource(st, identifier) ==
  With([p \in {getParentEntry(st, identifier)} |->
    IF p.err # "none" THEN [err |-> p.err, store |-> st]
    ELSE IF p.name \notin DOMAIN parentEntries(st, p) THEN [err |-> "NotFound", store |-> st]
    ELSE [err |-> "none", store |-> IF p.root THEN st ELSE deleteEntry(st, p.dir, p.name)]])

\* canHandle accepts every representation.
Mem_canHandle(representation) == "none"

(***************************************************************************)
(* The file system, as the accessor and its tests use it.  A node is a     *)
(* file [content], a directory [children] or something else [other].  A    *)
(* file holds bytes [bytes |-> chunks] or serialized quads [turtle |-> Q]. *)
(* The variable fs is the directory rootFilePath.                          *)
(***************************************************************************)
rootFilePath == <<"uploads">>
metaExtension == <<".meta">>

isFile(node) == "content" \in DOMAIN node
isDirectory(node) == "children" \in DOMAIN node

Fs_empty == [children |-> <<>>]

RECURSIVE collapseSlashes(_)
collapseSlashes(s) ==
  IF Len(s) < 2 THEN s
  ELSE IF s[1] = "/" /\ s[2] = "/" THEN collapseSlashes(Tail(s))
  ELSE <<s[1]>> \o collapseSlashes(Tail(s))

\* posix.join: empty segments are dropped, repeated separators collapse and a
\* trailing separator is kept.
joinPath(a, b) == IF b = <<>> THEN a ELSE collapseSlashes(a \o <<"/">> \o b)

fsParts(path) == nonEmptyParts(slice(path, Len(rootFilePath)))

\* Walks the directories leading to the last part of a path.
RECURSIVE fsWalk(_, _)
fsWalk(node, dir) ==
  IF dir = <<>> THEN "none"
  ELSE IF ~isDirectory(node) THEN "ENOTDIR"
  ELSE IF Head(dir) \notin DOMAIN node.children THEN "ENOENT"
  ELSE fsWalk(node.children[Head(dir)], Tail(dir))

RECURSIVE nodeAt(_, _)
nodeAt(node, dir) ==
  IF dir = <<>> THEN node ELSE nodeAt(node.children[Head(dir)], Tail(dir))

RECURSIVE putNode(_, _, _, _)
putNode(node, dir, name, child) ==
  IF dir = <<>>
  THEN [node EXCEPT !.children = (name :> child) @@ @]
  ELSE [node EXCEPT !.children[Head(dir)] = putNode(@, Tail(dir), name, child)]

RECURSIVE removeNode(_, _, _)
removeNode(node, dir, name) ==
  IF dir = <<>>
  THEN [node EXCEPT !.children = [n \in DOMAIN @ \ {name} |-> @[n]]]
  ELSE [node EXCEPT !.children[Head(dir)] = removeNode(@, Tail(dir), name)]

\* Where a path leads: [err, top, dir, name]; top when the path is the root itself.
fsResolve(fsys, path) ==
  With([parts \in {fsParts(path)} |->
    IF Len(parts) = 0 THEN [err |-> "none", top |-> TRUE, exists |-> TRUE, node |-> fsys]
    ELSE
      With([dir \in {SubSeq(parts, 1, Len(parts) - 1)} |->
      With([name \in {parts[Len(parts)]} |->
      With([w \in {fsWalk(fsys, dir)} |->
        IF w # "none" THEN [err |-> w]
        ELSE
          With([folder \in {nodeAt(fsys, dir)} |->
            [err |-> "none", top |-> FALSE, dir |-> dir, name |-> name,
             folderIsDir |-> isDirectory(folder),
             exists |-> isDirectory(folder) /\ name \in DOMAIN folder.children,
             node |-> IF isDirectory(folder) /\ name \in DOMAIN folder.children
                      THEN folder.children[name] ELSE [other |-> TRUE]]])])])])])

fs_lstat(fsys, path) ==
  With([r \in {fsResolve(fsys, path)} |->
    IF r.err # "none" THEN [err |-> r.err]
    ELSE IF ~r.exists THEN [err |-> "ENOENT"]
    ELSE [err |-> "none", stats |-> r.node]])

fs_readdir(fsys, path) == DOMAIN fs_lstat(fsys, path).stats.children

fs_mkdir(fsys, path, fault) ==
  With([r \in {fsResolve(fsys, path)} |->
    IF fault THEN [err |-> "EIO", fs |-> fsys]
    ELSE IF r.err # "none" THEN [err |-> r.err, fs |-> fsys]
    ELSE IF r.exists THEN [err |-> "EEXIST", fs |-> fsys]
    ELSE IF ~r.folderIsDir THEN [err |-> "ENOTDIR", fs |-> fsys]
    ELSE [err |-> "none", fs |-> putNode(fsys, r.dir, r.name, [children |-> <<>>])]])

fs_unlink(fsys, path, fault) ==
  With([r \in {fsResolve(fsys, path)} |->
    IF fault THEN [err |-> "EIO", fs |-> fsys]
    ELSE IF r.err # "none" THEN [err |-> r.err, fs |-> fsys]
    ELSE IF ~r.exists THEN [err |-> "ENOENT", fs |-> fsys]
    ELSE IF r.top \/ ~isFile(r.node) THEN [err |-> "EISDIR", fs |-> fsys]
    ELSE [err |-> "none", fs |-> removeNode(fsys, r.dir, r.name)]])

fs_rmdir(fsys, path, fault) ==
  With([r \in {fsResolve(fsys, path)} |->
    IF fault THEN [err |-> "EIO", fs |-> fsys]
    ELSE IF r.err # "none" THEN [err |-> r.err, fs |-> fsys]
    ELSE IF ~r.exists THEN [err |-> "ENOENT", fs |-> fsys]
    ELSE IF ~isDirectory(r.node) THEN [err |-> "ENOTDIR", fs |-> fsys]
    ELSE IF r.top \/ DOMAIN r.node.children # {} THEN [err |-> "ENOTEMPTY", fs |-> fsys]
    ELSE [err |-> "none", fs |-> removeNode(fsys, r.dir, r.name)]])

\* createWriteStream(path) and data.pipe(writeStream).  fault is "none", "open" (the
\* file could not be opened: nothing changes) or "stream" (the source or the write
\* failed after the file was opened: the file is left created and empty).
fs_write(fsys, path, content, fault) ==
  With([r \in {fsResolve(fsys, path)} |->
    IF fault = "open" THEN [err |-> "EIO", fs |-> fsys]
    ELSE IF r.err # "none" THEN [err |-> r.err, fs |-> fsys]
    ELSE IF r.top \/ endsWith(path, <<"/">>) \/ (r.exists /\ isDirectory(r.node))
         THEN [err |-> "EISDIR", fs |-> fsys]
    ELSE IF ~r.folderIsDir THEN [err |-> "ENOTDIR", fs |-> fsys]
    ELSE IF fault = "stream"
         THEN [err |-> "StreamError",
               fs |-> putNode(fsys, r.dir, r.name, [content |-> [bytes |-> <<>>]])]
    ELSE [err |-> "none", fs |-> putNode(fsys, r.dir, r.name, [content |-> content])]])

(***************************************************************************)
(* ExtensionBasedMapper                                                    *)
(***************************************************************************)
baseRequestURI == trimTrailingSlashes(base)

mapUrlToFilePath(identifier) ==
  IF ~startsWith(identifier, baseRequestURI) THEN [err |-> "NotFound"]
  ELSE [err |-> "none",
        path |-> joinPath(rootFilePath, slice(identifier, Len(baseRequestURI)))]

mapFilePathToUrl(path) == baseRequestURI \o slice(path, Len(rootFilePath))

getContentTypeFromExtension(path) ==
  IF endsWith(path, <<".ttl">>) THEN TEXT_TURTLE ELSE APPLICATION_OCTET_STREAM

(***************************************************************************)
(* FileDataAccessor.  faults is the set of file-system steps of the call   *)
(* that fail for a reason outside the accessor.                            *)
(***************************************************************************)
getMetadataPath(path) == path \o metaExtension

isMetadataPath(path) == endsWith(path, metaExtension)

serializeQuads(quads) == [turtle |-> quads]

\* [err, quads]: a file that is not serialized quads does not parse, an empty one
\* holds no quads.
parseQuads(content) ==
  IF "turtle" \in DOMAIN content THEN [err |-> "none", quads |-> content.turtle]
  ELSE IF content.bytes = <<>> THEN [err |-> "none", quads |-> {}]
  ELSE [err |-> "ParseError"]

writeFault(faults, open, stream) ==
  IF open \in faults THEN "open" ELSE IF stream \in faults THEN "stream" ELSE "none"

writeDataFile(fsys, path, content, fault) == fs_write(fsys, path, content, fault)

getStats(fsys, path) ==
  With([r \in {fs_lstat(fsys, path)} |->
    IF r.err = "ENOENT" THEN [err |-> "NotFound"] ELSE r])

statSize(stats) == IF isFile(stats) /\ "bytes" \in DOMAIN stats.content
                   THEN Len(stats.content.bytes) ELSE 0

\* The modification time is the one fixed time of the accessor's tests.
generatePosixQuads(subject, stats) ==
  {<<subject, POSIX_size, <<"int", ToString(statSize(stats))>>>>,
   <<subject, DCTERMS_modified, <<"now">>>>,
   <<subject, POSIX_mtime, <<"now">>>>}

getRawMetadata(fsys, path) ==
  With([r \in {fs_lstat(fsys, getMetadataPath(path))} |->
    IF r.err = "ENOENT" THEN [err |-> "none", quads |-> {}]
    ELSE IF r.err # "none" THEN [err |-> r.err]
    ELSE IF ~isFile(r.stats) THEN [err |-> "EISDIR"]
    ELSE parseQuads(r.stats.content)])

getBaseMetadata(fsys, identifier, path, stats, isContainer) ==
  With([raw \in {getRawMetadata(fsys, path)} |->
    IF raw.err # "none" THEN [err |-> raw.err]
    ELSE [err |-> "none",
          metadata |->
            addQuads(addQuads(addQuads(newMetadata(identifier), raw.quads),
                              generateResourceQuads(identifier, isContainer)),
                     generatePosixQuads(identifier, stats))]])

getFileMetadata(fsys, identifier, path, stats) ==
  With([b \in {getBaseMetadata(fsys, identifier, path, stats, FALSE)} |->
    IF b.err # "none" THEN b
    ELSE [err |-> "none",
          metadata |-> setValue(b.metadata, CONTENT_TYPE, getContentTypeFromExtension(path))]])

\* The children that are listed: no metadata file, and only files and directories.
listedChildren(fsys, path) ==
  {childName \in fs_readdir(fsys, path) :
     /\ ~isMetadataPath(childName)
     /\ \E childStats \in {fs_lstat(fsys, joinPath(path, childName)).stats} :
          isFile(childStats) \/ isDirectory(childStats)}

childURI(path, childName, childStats) ==
  IF isDirectory(childStats)
  THEN ensureTrailingSlash(mapFilePathToUrl(joinPath(path, childName)))
  ELSE mapFilePathToUrl(joinPath(path, childName))

\* children: for every listed child its name, its stats and its URI.
getChildMetadataQuads(fsys, identifier, path) ==
  With([children \in {{With([childStats \in {fs_lstat(fsys, joinPath(path, childName)).stats} |->
             [stats |-> childStats, uri |-> childURI(path, childName, childStats)]]) :
         childName \in listedChildren(fsys, path)}}
      |->
    UNION {generateResourceQuads(c.uri, isDirectory(c.stats))
             \cup generatePosixQuads(c.uri, c.stats) : c \in children}
    \cup generateContainerContainsResourceQuads(identifier, {c.uri : c \in children})])

getDirectoryMetadata(fsys, identifier, path, stats) ==
  With([b \in {getBaseMetadata(fsys, identifier, path, stats, TRUE)} |->
    IF b.err # "none" THEN b
    ELSE [err |-> "none",
          metadata |-> addQuads(b.metadata, getChildMetadataQuads(fsys, identifier, path))]])

\* canHandle of the file accessor that accepts every representation.
File_canHandle_Anything(representation) == "none"

File_canHandle(representation) ==
  IF ~representation.binary THEN "UnsupportedMediaType" ELSE "none"

File_getData(fsys, identifier) ==
  With([m \in {mapUrlToFilePath(identifier)} |->
    IF m.err # "none" THEN [err |-> m.err]
    ELSE With([s \in {getStats(fsys, m.path)} |->
           IF s.err # "none" THEN [err |-> s.err]
           ELSE IF isFile(s.stats)
                THEN [err |-> "none",
                      data |-> IF "bytes" \in DOMAIN s.stats.content
                               THEN s.stats.content.bytes ELSE <<s.stats.content>>]
                ELSE [err |-> "NotFound"]])])

File_getMetadata(fsys, identifier) ==
  With([m \in {mapUrlToFilePath(identifier)} |->
    IF m.err # "none" THEN [err |-> m.err]
    ELSE With([s \in {getStats(fsys, m.path)} |->
           IF s.err # "none" THEN [err |-> s.err]
           ELSE IF ~endsWith(identifier, <<"/">>) /\ isFile(s.stats)
                THEN getFileMetadata(fsys, identifier, m.path, s.stats)
           ELSE IF endsWith(identifier, <<"/">>) /\ isDirectory(s.stats)
                THEN getDirectoryMetadata(fsys, identifier, m.path, s.stats)
           ELSE [err |-> "NotFound"]])])

\* The metadata quads that are written to the metadata file: all but the types.
storedQuads(metadata) ==
  IF isDefined(metadata) THEN removeAll(metadata, RDF_type).quads ELSE {}

\* What a call that stopped before any write did.
nothingWritten == [sidecar |-> FALSE, contentFailed |-> FALSE]

\* writeDataResource without the removal of the metadata file in its catch block.
File_writeDataResource_NoRollback(fsys, identifier, data, metadata, faults) ==
  With([m \in {mapUrlToFilePath(identifier)} |->
    IF m.err # "none" THEN [err |-> m.err, fs |-> fsys] @@ nothingWritten
    ELSE IF isMetadataPath(m.path) THEN [err |-> "Conflict", fs |-> fsys] @@ nothingWritten
    ELSE
      With([quads \in {storedQuads(metadata)} |->
      With([w1 \in {IF quads # {}
          THEN writeDataFile(fsys, getMetadataPath(m.path), serializeQuads(quads),
                             writeFault(faults, "sidecarOpen", "sidecarStream"))
          ELSE [err |-> "none", fs |-> fsys]}
          |->
        IF w1.err # "none" THEN [err |-> w1.err, fs |-> w1.fs] @@ nothingWritten
        ELSE
          With([w2 \in {writeDataFile(w1.fs, m.path, [bytes |-> data],
                            writeFault(faults, "contentOpen", "contentStream"))}
              |->
            [err |-> w2.err, fs |-> w2.fs, sidecar |-> quads # {},
             contentFailed |-> w2.err # "none"]])])])])

\* writeDataResource without the check of the path against the metadata extension.
File_writeDataResource_AnyPath(fsys, identifier, data, metadata, faults) ==
  With([m \in {mapUrlToFilePath(identifier)} |->
    IF m.err # "none" THEN [err |-> m.err, fs |-> fsys] @@ nothingWritten
    ELSE
      With([quads \in {storedQuads(metadata)} |->
      With([w1 \in {IF quads # {}
          THEN writeDataFile(fsys, getMetadataPath(m.path), serializeQuads(quads),
                             writeFault(faults, "sidecarOpen", "sidecarStream"))
          ELSE [err |-> "none", fs |-> fsys]}
          |->
        IF w1.err # "none" THEN [err |-> w1.err, fs |-> w1.fs] @@ nothingWritten
        ELSE
          With([w2 \in {writeDataFile(w1.fs, m.path, [bytes |-> data],
                            writeFault(faults, "contentOpen", "contentStream"))}
              |->
          With([did \in {[sidecar |-> quads # {}, contentFailed |-> w2.err # "none"]} |->
            IF w2.err = "none" THEN [err |-> "none", fs |-> w2.fs] @@ did
            ELSE IF isDefined(metadata)
                 THEN With([u \in {fs_unlink(w2.fs, getMetadataPath(m.path), "unlinkMeta" \in faults)}
                          |->
                        IF u.err # "none" THEN [err |-> u.err, fs |-> u.fs] @@ did
                        ELSE [err |-> w2.err, fs |-> u.fs] @@ did])
                 ELSE [err |-> w2.err, fs |-> w2.fs] @@ did])])])])])

\* The result also tells what the call did: sidecar, that the metadata file was
\* written; contentFailed, that writing the file itself failed.
File_writeDataResource(fsys, identifier, data, metadata, faults) ==
  With([m \in {mapUrlToFilePath(identifier)} |->
    IF m.err # "none" THEN [err |-> m.err, fs |-> fsys] @@ nothingWritten
    ELSE IF isMetadataPath(m.path) THEN [err |-> "Conflict", fs |-> fsys] @@ nothingWritten
    ELSE
      With([quads \in {storedQuads(metadata)} |->
      With([w1 \in {IF quads # {}
          THEN writeDataFile(fsys, getMetadataPath(m.path), serializeQuads(quads),
                             writeFault(faults, "sidecarOpen", "sidecarStream"))
          ELSE [err |-> "none", fs |-> fsys]}
          |->
        IF w1.err # "none" THEN [err |-> w1.err, fs |-> w1.fs] @@ nothingWritten
        ELSE
          With([w2 \in {writeDataFile(w1.fs, m.path, [bytes |-> data],
                            writeFault(faults, "contentOpen", "contentStream"))}
              |->
          With([did \in {[sidecar |-> quads # {}, contentFailed |-> w2.err # "none"]} |->
            IF w2.err = "none" THEN [err |-> "none", fs |-> w2.fs] @@ did
            ELSE IF isDefined(metadata)
                 THEN With([u \in {fs_unlink(w2.fs, getMetadataPath(m.path), "unlinkMeta" \in faults)}
                          |->
                        IF u.err # "none" THEN [err |-> u.err, fs |-> u.fs] @@ did
                        ELSE [err |-> w2.err, fs |-> u.fs] @@ did])
                 ELSE [err |-> w2.err, fs |-> w2.fs] @@ did])])])])])

\* writeContainer that does not catch the EEXIST of mkdir.
File_writeContainer_ThrowsIfExists(fsys, identifier, metadata, faults) ==
  With([m \in {mapUrlToFilePath(identifier)} |->
    IF m.err # "none" THEN [err |-> m.err, fs |-> fsys]
    ELSE
      With([d \in {fs_mkdir(fsys, m.path, "mkdir" \in faults)} |->
        IF d.err # "none" THEN [err |-> d.err, fs |-> d.fs]
        ELSE
          With([quads \in {storedQuads(metadata)} |->
            IF quads # {}
            THEN writeDataFile(d.fs, getMetadataPath(m.path), serializeQuads(quads),
                               writeFault(faults, "sidecarOpen", "sidecarStream"))
            ELSE [err |-> "none", fs |-> d.fs]])])])

File_writeContainer(fsys, identifier, metadata, faults) ==
  With([m \in {mapUrlToFilePath(identifier)} |->
    IF m.err # "none" THEN [err |-> m.err, fs |-> fsys]
    ELSE
      With([d \in {fs_mkdir(fsys, m.path, "mkdir" \in faults)} |->
        IF d.err \notin {"none", "EEXIST"} THEN [err |-> d.err, fs |-> d.fs]
        ELSE
          With([quads \in {storedQuads(metadata)} |->
            IF quads # {}
            THEN writeDataFile(d.fs, getMetadataPath(m.path), serializeQuads(quads),
                               writeFault(faults, "sidecarOpen", "sidecarStream"))
            ELSE [err |-> "none", fs |-> d.fs]])])])

File_modifyResource(fsys, identifier) == [err |-> "Error", fs |-> fsys]

File_deleteResource(fsys, identifier, faults) ==
  With([m \in {mapUrlToFilePath(identifier)} |->
    IF m.err # "none" THEN [err |-> m.err, fs |-> fsys]
    ELSE
      With([s \in {getStats(fsys, m.path)} |->
        IF s.err # "none" THEN [err |-> s.err, fs |-> fsys]
        ELSE
          With([u \in {fs_unlink(fsys, getMetadataPath(m.path), "unlinkMeta" \in faults)} |->
            IF u.err \notin {"none", "ENOENT"} THEN [err |-> u.err, fs |-> u.fs]
            ELSE IF ~endsWith(identifier, <<"/">>) /\ isFile(s.stats)
                 THEN fs_unlink(u.fs, m.path, "removePrimary" \in faults)
            ELSE IF endsWith(identifier, <<"/">>) /\ isDirectory(s.stats)
                 THEN fs_rmdir(u.fs, m.path, "removePrimary" \in faults)
            ELSE [err |-> "NotFound", fs |-> u.fs]])])])

(***************************************************************************)
(* NormalizedDataAccessor                                                  *)
(***************************************************************************)
\* The identifier with its trailing slash changed, as the retry builds it.
toggled(identifier) ==
  IF endsWith(identifier, <<"/">>) THEN trimTrailingSlashes(identifier)
  ELSE ensureTrailingSlash(identifier)

\* getNormalizedMetadata that tries the other identifier after every failure.
File_getNormalizedMetadata_RetryAlways(fsys, identifier) ==
  With([first \in {File_getMetadata(fsys, identifier)} |->
    IF first.err # "none"
    THEN File_getMetadata(fsys, toggled(identifier))
           @@ [calls |-> <<identifier, toggled(identifier)>>]
    ELSE first @@ [calls |-> <<identifier>>]])

\* getNormalizedMetadata of the abstract class, over the getMetadata of the file
\* accessor, its one subclass.  calls lists the identifiers getMetadata was called
\* with, in order.
File_getNormalizedMetadata(fsys, identifier) ==
  With([first \in {File_getMetadata(fsys, identifier)} |->
    IF first.err = "NotFound"
    THEN File_getMetadata(fsys, toggled(identifier))
           @@ [calls |-> <<identifier, toggled(identifier)>>]
    ELSE first @@ [calls |-> <<identifier>>]])

(***************************************************************************)
(* The DataAccessor interface over the state of either backend:            *)
(* a = [backend, store, fs].                                               *)
(***************************************************************************)
acc_canHandle(a, representation) ==
  IF a.backend = "mem" THEN Mem_canHandle(representation) ELSE File_canHandle(representation)

acc_getData(a, identifier) ==
  IF a.backend = "mem"
  THEN With([r \in {Mem_getData(a.store, identifier)} |->
         IF r.err # "none" THEN [err |-> r.err, acc |-> a]
         ELSE [err |-> "none", data |-> r.data, acc |-> [a EXCEPT !.store = r.store]]])
  ELSE File_getData(a.fs, identifier) @@ [acc |-> a]

acc_getMetadata(a, identifier) ==
  IF a.backend = "mem" THEN Mem_getMetadata(a.store, identifier)
  ELSE File_getMetadata(a.fs, identifier)

acc_getNormalizedMetadata(a, identifier) ==
  IF a.backend = "mem" THEN Mem_getNormalizedMetadata(a.store, identifier)
  ELSE File_getNormalizedMetadata(a.fs, identifier)

acc_writeDataResource(a, identifier, data, metadata, faults) ==
  IF a.backend = "mem"
  THEN With([r \in {Mem_writeDataResource(a.store, identifier, data, metadata)} |->
         [err |-> r.err, acc |-> [a EXCEPT !.store = r.store],
          sidecar |-> FALSE, contentFailed |-> FALSE]])
  ELSE With([r \in {File_writeDataResource(a.fs, identifier, data, metadata, faults)} |->
         [err |-> r.err, acc |-> [a EXCEPT !.fs = r.fs],
          sidecar |-> r.sidecar, contentFailed |-> r.contentFailed]])

acc_writeContainer(a, identifier, metadata, faults) ==
  IF a.backend = "mem"
  THEN With([r \in {Mem_writeContainer(a.store, identifier, metadata)} |->
         [err |-> r.err, acc |-> [a EXCEPT !.store = r.store]]])
  ELSE With([r \in {File_writeContainer(a.fs, identifier, metadata, faults)} |->
         [err |-> r.err, acc |-> [a EXCEPT !.fs = r.fs]]])

acc_modifyResource(a, identifier) == [err |-> "Error", acc |-> a]

acc_deleteResource(a, identifier, faults) ==
  IF a.backend = "mem"
  THEN With([r \in {Mem_deleteResource(a.store, identifier)} |->
         [err |-> r.err, acc |-> [a EXCEPT !.store = r.store]]])
  ELSE With([r \in {File_deleteResource(a.fs, identifier, faults)} |->
         [err |-> r.err, acc |-> [a EXCEPT !.fs = r.fs]]])

(***************************************************************************)
(* UrlContainerManager                                                     *)
(***************************************************************************)
RECURSIVE dropLastPart(_)
dropLastPart(s) ==
  IF s = <<>> \/ s[Len(s)] = "/" THEN s ELSE dropLastPart(SubSeq(s, 1, Len(s) - 1))

\* [err, path]: the container of an identifier; the root has none.
getContainer(identifier) ==
  IF ensureTrailingSlash(identifier) = base THEN [err |-> "Error"]
  ELSE [err |-> "none", path |-> dropLastPart(trimTrailingSlashes(identifier))]

(***************************************************************************)
(* DataAccessorBasedStore.  A representation is [binary, data, metadata];  *)
(* every operation yields [err, acc, ...] with the accessor state after it.*)
(***************************************************************************)
\* validateIdentifier that lets every identifier pass.
validateIdentifier_Anything(identifier) == "none"

validateIdentifier(identifier) ==
  IF ~startsWith(identifier, base) THEN "NotFound" ELSE "none"

\* The statements a body of RDF can hold, one per chunk; any other chunk does not parse.
bodyQuad(chunk) ==
  IF chunk = "ttl:likes" THEN <<<<"s">>, LIKES, <<"pears">>>>
  ELSE <<<<"s">>, LDP_contains, <<"x">>>>

parseBody(data) ==
  IF \A i \in 1..Len(data) : data[i] \in {"ttl:likes", "ttl:contains"}
  THEN [err |-> "none", quads |-> {bodyQuad(data[i]) : i \in 1..Len(data)}]
  ELSE [err |-> "ParseError"]

\* [err, value]
isExistingContainer(metadata) ==
  With([types \in {getAll(metadata, RDF_type)} |->
    IF types = {} THEN [err |-> "Error"]
    ELSE [err |-> "none",
          value |-> \E type \in types : type = LDP_Container \/ type = LDP_BasicContainer]])

slugOf(metadata) ==
  With([slugs \in {getAll(metadata, HTTP_slug)} |->
    IF slugs = {} THEN undefined ELSE [value |-> CHOOSE v \in slugs : TRUE]])

\* suffix is undefined or [value |-> string]
isNewContainer(metadata, suffix) ==
  With([e \in {isExistingContainer(metadata)} |->
    IF e.err = "none" THEN e.value
    ELSE With([slug \in {IF isDefined(suffix) THEN suffix ELSE slugOf(metadata)} |->
           isDefined(slug) /\ endsWith(slug.value, <<"/">>)])])

\* The n-th name that uuid() generates.
uuid(n) == <<"u" \o ToString(n)>>

\* slug is undefined or [value |-> string]; n numbers the uuid() call.
createURI(container, isContainer, slug, n) ==
  ensureTrailingSlash(container)
    \o (IF isDefined(slug) /\ slug.value # <<>> THEN trimTrailingSlashes(slug.value) ELSE uuid(n))
    \o (IF isContainer THEN <<"/">> ELSE <<>>)

usesUuid(slug) == ~(isDefined(slug) /\ slug.value # <<>>)

\* [err, representation]
\* handleContainerData without the refusal of containment edges in the body.
handleContainerData_AnyBody(representation) ==
  With([p \in {parseBody(representation.data)} |->
    IF p.err # "none" THEN [err |-> "Unsupported"]
    ELSE [err |-> "none",
          representation |->
            [representation EXCEPT
               !.metadata = addQuads(removeAll(@, CONTENT_TYPE), p.quads)]]])

handleContainerData(representation) ==
  With([p \in {parseBody(representation.data)} |->
    IF p.err # "none" THEN [err |-> "Unsupported"]
    ELSE IF \E quad \in p.quads : quad[2] = LDP_contains THEN [err |-> "Conflict"]
    ELSE [err |-> "none",
          representation |->
            [representation EXCEPT
               !.metadata = addQuads(removeAll(@, CONTENT_TYPE), p.quads)]]])

\* An empty container representation that is not empty: it carries a statement.
getEmptyContainerRepresentation_WithBody(container) ==
  [binary |-> TRUE, data |-> <<>>,
   metadata |-> addQuads(newMetadata(container), {<<container, LIKES, <<"pears">>>>})]

getEmptyContainerRepresentation(container) ==
  [binary |-> TRUE, data |-> <<>>, metadata |-> newMetadata(container)]

RECURSIVE writeData(_, _, _, _, _)
RECURSIVE createRecursiveContainers(_, _)

\* [err, acc, created]: created lists the containers that were written, in order.
createRecursiveContainers(a, container) ==
  With([m \in {acc_getNormalizedMetadata(a, container)} |->
    IF m.err = "none"
    THEN With([e \in {isExistingContainer(m.metadata)} |->
           IF e.err # "none" THEN [err |-> e.err, acc |-> a, created |-> <<>>]
           ELSE IF ~e.value THEN [err |-> "Conflict", acc |-> a, created |-> <<>>]
           ELSE [err |-> "none", acc |-> a, created |-> <<>>]])
    ELSE IF m.err = "NotFound"
    THEN With([parent \in {getContainer(container)} |->
           IF parent.err # "none" THEN [err |-> parent.err, acc |-> a, created |-> <<>>]
           ELSE With([r \in {createRecursiveContainers(a, parent.path)} |->
                  IF r.err # "none" THEN r
                  ELSE With([w \in {writeData(r.acc, container,
                                     getEmptyContainerRepresentation(container), TRUE, FALSE)}
                           |->
                         [err |-> w.err, acc |-> w.acc,
                          created |-> IF w.err = "none" THEN Append(r.created, container)
                                      ELSE r.created]])])])
    ELSE [err |-> m.err, acc |-> a, created |-> <<>>]])

\* [err, acc, created]
writeData(a, identifier, representation, isContainer, createContainers) ==
  With([h \in {IF isContainer THEN handleContainerData(representation)
      ELSE [err |-> "none", representation |-> representation]}
      |->
    IF h.err # "none" THEN [err |-> h.err, acc |-> a, created |-> <<>>]
    ELSE
      With([c \in {IF ~createContainers THEN [err |-> "none", acc |-> a, created |-> <<>>]
          ELSE With([parent \in {getContainer(identifier)} |->
                 IF parent.err # "none"
                 THEN [err |-> parent.err, acc |-> a, created |-> <<>>]
                 ELSE createRecursiveContainers(a, parent.path)])}
          |->
        IF c.err # "none" THEN c
        ELSE
          With([metadata \in {addQuads(setIdentifier(h.representation.metadata, identifier),
                       generateResourceQuads(identifier, isContainer))}
              |->
          With([w \in {IF isContainer
              THEN acc_writeContainer(c.acc, identifier, metadata, {})
              ELSE acc_writeDataResource(c.acc, identifier, h.representation.data,
                                         metadata, {})}
              |->
            [err |-> w.err, acc |-> w.acc, created |-> c.created]])])])])

\* The data getter of the representation of a container: the quads of the metadata
\* of the result as they are when the data is asked for.
result_data(result) == result.metadata.quads

\* The data of a representation that getRepresentation returned: a field for a data
\* resource, the getter for a container.
dataOf(representation) ==
  IF "data" \in DOMAIN representation THEN representation.data
  ELSE result_data(representation)

\* The representation of a container has no data field: its data is the getter
\* result_data.
Store_getRepresentation(a, identifier) ==
  IF validateIdentifier(identifier) # "none" THEN [err |-> "NotFound", acc |-> a]
  ELSE
    With([m \in {acc_getMetadata(a, identifier)} |->
      IF m.err # "none" THEN [err |-> m.err, acc |-> a]
      ELSE
        With([e \in {isExistingContainer(m.metadata)} |->
          IF e.err # "none" THEN [err |-> e.err, acc |-> a]
          ELSE IF e.value
          THEN With([metadata \in {setValue(m.metadata, CONTENT_TYPE, INTERNAL_QUADS)} |->
                 [err |-> "none", acc |-> a,
                  representation |-> [binary |-> FALSE, metadata |-> metadata]]])
          ELSE
            With([d \in {acc_getData(a, identifier)} |->
              IF d.err # "none" THEN [err |-> d.err, acc |-> a]
              ELSE [err |-> "none", acc |-> d.acc,
                    representation |->
                      [binary |-> getAll(m.metadata, CONTENT_TYPE) # {INTERNAL_QUADS},
                       data |-> d.data, metadata |-> m.metadata]]])])])

\* addResource that accepts a missing parent whatever the end of its identifier.
Store_addResource_AnyParent(a, container, representation, n) ==
  IF validateIdentifier(container) # "none" THEN [err |-> "NotFound", acc |-> a, uuids |-> n]
  ELSE IF acc_canHandle(a, representation) # "none"
  THEN [err |-> acc_canHandle(a, representation), acc |-> a, uuids |-> n]
  ELSE
    With([isContainer \in {isNewContainer(representation.metadata, undefined)} |->
    With([slug \in {slugOf(representation.metadata)} |->
    With([n1 \in {IF usesUuid(slug) THEN n + 1 ELSE n} |->
    With([firstID \in {createURI(container, isContainer, slug, n1)} |->
    With([stripped \in {[representation EXCEPT !.metadata = removeAll(@, HTTP_slug)]} |->
    With([parent \in {acc_getNormalizedMetadata(a, container)} |->
    With([exists \in {/\ parent.err = "none"
        /\ \E term \in getAll(parent.metadata, LDP_contains) :
             \/ term = ensureTrailingSlash(firstID)
             \/ term = trimTrailingSlashes(firstID)}
        |->
    With([n2 \in {IF exists THEN n1 + 1 ELSE n1} |->
    With([newID \in {IF exists THEN createURI(container, isContainer, undefined, n2) ELSE firstID}
        |->
    With([parentIsContainer \in {IF parent.err = "none" THEN isExistingContainer(parent.metadata)
        ELSE [err |-> "none", value |-> TRUE]}
        |->
      IF parent.err \notin {"none", "NotFound"}
      THEN [err |-> parent.err, acc |-> a, uuids |-> n1]
      ELSE IF parentIsContainer.err # "none"
      THEN [err |-> "Error", acc |-> a, uuids |-> n2]
      ELSE IF ~parentIsContainer.value
      THEN [err |-> "MethodNotAllowed", acc |-> a, uuids |-> n2]
      ELSE writeData(a, newID, stripped, isContainer, parent.err # "none")
             @@ [identifier |-> newID, uuids |-> n2]])])])])])])])])])])

\* addResource without the refusal of a parent that is no container.
Store_addResource_AnyKind(a, container, representation, n) ==
  IF validateIdentifier(container) # "none" THEN [err |-> "NotFound", acc |-> a, uuids |-> n]
  ELSE IF acc_canHandle(a, representation) # "none"
  THEN [err |-> acc_canHandle(a, representation), acc |-> a, uuids |-> n]
  ELSE
    With([isContainer \in {isNewContainer(representation.metadata, undefined)} |->
    With([slug \in {slugOf(representation.metadata)} |->
    With([n1 \in {IF usesUuid(slug) THEN n + 1 ELSE n} |->
    With([firstID \in {createURI(container, isContainer, slug, n1)} |->
    With([stripped \in {[representation EXCEPT !.metadata = removeAll(@, HTTP_slug)]} |->
    With([parent \in {acc_getNormalizedMetadata(a, container)} |->
    With([exists \in {/\ parent.err = "none"
        /\ \E term \in getAll(parent.metadata, LDP_contains) :
             \/ term = ensureTrailingSlash(firstID)
             \/ term = trimTrailingSlashes(firstID)}
        |->
    With([n2 \in {IF exists THEN n1 + 1 ELSE n1} |->
    With([newID \in {IF exists THEN createURI(container, isContainer, undefined, n2) ELSE firstID}
        |->
    With([parentIsContainer \in {IF parent.err = "none" THEN isExistingContainer(parent.metadata)
        ELSE [err |-> "none", value |-> TRUE]}
        |->
      IF parent.err \notin {"none", "NotFound"}
      THEN [err |-> parent.err, acc |-> a, uuids |-> n1]
      ELSE IF parent.err = "NotFound" /\ ~endsWith(container, <<"/">>)
      THEN [err |-> "NotFound", acc |-> a, uuids |-> n1]
      ELSE IF parentIsContainer.err # "none"
      THEN [err |-> "Error", acc |-> a, uuids |-> n2]
      ELSE writeData(a, newID, stripped, isContainer, parent.err # "none")
             @@ [identifier |-> newID, uuids |-> n2]])])])])])])])])])])

\* n is the number of uuid() calls made so far; the result tells the new count.
Store_addResource(a, container, representation, n) ==
  IF validateIdentifier(container) # "none" THEN [err |-> "NotFound", acc |-> a, uuids |-> n]
  ELSE IF acc_canHandle(a, representation) # "none"
  THEN [err |-> acc_canHandle(a, representation), acc |-> a, uuids |-> n]
  ELSE
    With([isContainer \in {isNewContainer(representation.metadata, undefined)} |->
    With([slug \in {slugOf(representation.metadata)} |->
    With([n1 \in {IF usesUuid(slug) THEN n + 1 ELSE n} |->
    With([firstID \in {createURI(container, isContainer, slug, n1)} |->
    With([stripped \in {[representation EXCEPT !.metadata = removeAll(@, HTTP_slug)]} |->
    With([parent \in {acc_getNormalizedMetadata(a, container)} |->
    With([exists \in {/\ parent.err = "none"
        /\ \E term \in getAll(parent.metadata, LDP_contains) :
             \/ term = ensureTrailingSlash(firstID)
             \/ term = trimTrailingSlashes(firstID)}
        |->
    With([n2 \in {IF exists THEN n1 + 1 ELSE n1} |->
    With([newID \in {IF exists THEN createURI(container, isContainer, undefined, n2) ELSE firstID}
        |->
    With([parentIsContainer \in {IF parent.err = "none" THEN isExistingContainer(parent.metadata)
        ELSE [err |-> "none", value |-> TRUE]}
        |->
      IF parent.err \notin {"none", "NotFound"}
      THEN [err |-> parent.err, acc |-> a, uuids |-> n1]
      ELSE IF parent.err = "NotFound" /\ ~endsWith(container, <<"/">>)
      THEN [err |-> "NotFound", acc |-> a, uuids |-> n1]
      ELSE IF parentIsContainer.err # "none"
      THEN [err |-> "Error", acc |-> a, uuids |-> n2]
      ELSE IF ~parentIsContainer.value
      THEN [err |-> "MethodNotAllowed", acc |-> a, uuids |-> n2]
      ELSE writeData(a, newID, stripped, isContainer, parent.err # "none")
             @@ [identifier |-> newID, uuids |-> n2]])])])])])])])])])])

\* setRepresentation without the comparison of the identifier that was found.
Store_setRepresentation_AnyShape(a, identifier, representation) ==
  IF validateIdentifier(identifier) # "none" THEN [err |-> "NotFound", acc |-> a]
  ELSE IF acc_canHandle(a, representation) # "none"
  THEN [err |-> acc_canHandle(a, representation), acc |-> a]
  ELSE
    With([old \in {acc_getNormalizedMetadata(a, identifier)} |->
    With([isContainer \in {isNewContainer(representation.metadata, [value |-> identifier])} |->
    With([oldIsContainer \in {IF old.err = "none" THEN isExistingContainer(old.metadata)
        ELSE [err |-> "none", value |-> isContainer]}
        |->
      IF old.err \notin {"none", "NotFound"} THEN [err |-> old.err, acc |-> a]
      ELSE IF oldIsContainer.err # "none"
      THEN [err |-> "Error", acc |-> a]
      ELSE IF isContainer # oldIsContainer.value
      THEN [err |-> "Conflict", acc |-> a]
      ELSE IF isContainer # endsWith(identifier, <<"/">>)
      THEN [err |-> "Unsupported", acc |-> a]
      ELSE writeData(a, identifier, representation, isContainer, old.err # "none")])])])

\* setRepresentation without the comparison of the kinds.
Store_setRepresentation_AnyKind(a, identifier, representation) ==
  IF validateIdentifier(identifier) # "none" THEN [err |-> "NotFound", acc |-> a]
  ELSE IF acc_canHandle(a, representation) # "none"
  THEN [err |-> acc_canHandle(a, representation), acc |-> a]
  ELSE
    With([old \in {acc_getNormalizedMetadata(a, identifier)} |->
    With([isContainer \in {isNewContainer(representation.metadata, [value |-> identifier])} |->
    With([oldIsContainer \in {IF old.err = "none" THEN isExistingContainer(old.metadata)
        ELSE [err |-> "none", value |-> isContainer]}
        |->
      IF old.err \notin {"none", "NotFound"} THEN [err |-> old.err, acc |-> a]
      ELSE IF old.err = "none" /\ old.metadata.identifier # identifier
      THEN [err |-> "Conflict", acc |-> a]
      ELSE IF oldIsContainer.err # "none"
      THEN [err |-> "Error", acc |-> a]
      ELSE IF isContainer # endsWith(identifier, <<"/">>)
      THEN [err |-> "Unsupported", acc |-> a]
      ELSE writeData(a, identifier, representation, isContainer, old.err # "none")])])])

Store_setRepresentation(a, identifier, representation) ==
  IF validateIdentifier(identifier) # "none" THEN [err |-> "NotFound", acc |-> a]
  ELSE IF acc_canHandle(a, representation) # "none"
  THEN [err |-> acc_canHandle(a, representation), acc |-> a]
  ELSE
    With([old \in {acc_getNormalizedMetadata(a, identifier)} |->
    With([isContainer \in {isNewContainer(representation.metadata, [value |-> identifier])} |->
    With([oldIsContainer \in {IF old.err = "none" THEN isExistingContainer(old.metadata)
        ELSE [err |-> "none", value |-> isContainer]}
        |->
      IF old.err \notin {"none", "NotFound"} THEN [err |-> old.err, acc |-> a]
      ELSE IF old.err = "none" /\ old.metadata.identifier # identifier
      THEN [err |-> "Conflict", acc |-> a]
      ELSE IF oldIsContainer.err # "none"
      THEN [err |-> "Error", acc |-> a]
      ELSE IF isContainer # oldIsContainer.value
      THEN [err |-> "Conflict", acc |-> a]
      ELSE IF isContainer # endsWith(identifier, <<"/">>)
      THEN [err |-> "Unsupported", acc |-> a]
      ELSE writeData(a, identifier, representation, isContainer, old.err # "none")])])])

Store_modifyResource(a, identifier) ==
  IF validateIdentifier(identifier) # "none" THEN [err |-> "NotFound", acc |-> a]
  ELSE acc_modifyResource(a, identifier)

\* deleteResource without the check for containment edges.
Store_deleteResource_NoCheck(a, identifier) ==
  IF validateIdentifier(identifier) # "none" THEN [err |-> "NotFound", acc |-> a]
  ELSE IF ensureTrailingSlash(identifier) = base THEN [err |-> "MethodNotAllowed", acc |-> a]
  ELSE
    With([m \in {acc_getMetadata(a, identifier)} |->
      IF m.err # "none" THEN [err |-> m.err, acc |-> a]
      ELSE acc_deleteResource(a, identifier, {})])

\* deleteResource without the refusal of the root container.
Store_deleteResource_RootToo(a, identifier) ==
  IF validateIdentifier(identifier) # "none" THEN [err |-> "NotFound", acc |-> a]
  ELSE
    With([m \in {acc_getMetadata(a, identifier)} |->
      IF m.err # "none" THEN [err |-> m.err, acc |-> a]
      ELSE IF getAll(m.metadata, LDP_contains) # {} THEN [err |-> "Conflict", acc |-> a]
      ELSE acc_deleteResource(a, identifier, {})])

Store_deleteResource(a, identifier) ==
  IF validateIdentifier(identifier) # "none" THEN [err |-> "NotFound", acc |-> a]
  ELSE IF ensureTrailingSlash(identifier) = base THEN [err |-> "MethodNotAllowed", acc |-> a]
  ELSE
    With([m \in {acc_getMetadata(a, identifier)} |->
      IF m.err # "none" THEN [err |-> m.err, acc |-> a]
      ELSE IF getAll(m.metadata, LDP_contains) # {} THEN [err |-> "Conflict", acc |-> a]
      ELSE acc_deleteResource(a, identifier, {})])

(***************************************************************************)
(* The accessors called directly: any sequence of accessor calls on one of *)
(* the two backends.  last records the latest call and its outcome.        *)
(***************************************************************************)
accessor == [backend |-> backend, store |-> store, fs |-> fs]

path(parts) == base \o parts

AccessorIds ==
  {base,
   path(<<"a">>), path(<<"a", "/">>),
   path(<<"a", "/", "b">>),
   path(<<"a", ".meta">>), path(<<"a", ".meta", "/">>)}

Datas == {<<"d1">>, <<"d2", "d3">>}

MetadataInputs(identifier) ==
  {undefined,
   [identifier |-> identifier, quads |-> {<<identifier, RDF_type, LDP_Resource>>}],
   [identifier |-> identifier,
    quads |-> {<<identifier, LIKES, <<"apples">>>>, <<identifier, CONTENT_TYPE, TEXT_TURTLE>>}]}

InitAccessor ==
  /\ backend \in {"mem", "file"}
  /\ store = Mem_constructor
  /\ fs = Fs_empty
  /\ uuids = 0
  /\ last = [op |-> "init"]
  /\ streams = noStreams
  /\ writers = noWriters

\* One accessor call; faults is empty when no file-system step fails.
DoWriteDataResource(identifier, data, metadata, faults) ==
  \E r \in {acc_writeDataResource(accessor, identifier, data, metadata, faults)} :
  /\ store' = r.acc.store
  /\ fs' = r.acc.fs
  /\ last' = [op |-> "writeDataResource", identifier |-> identifier,
              data |-> IF r.err = "none" THEN data ELSE <<>>,
              metadata |-> IF r.err = "none" THEN metadata ELSE undefined,
              hasMetadata |-> isDefined(metadata), faults |-> faults,
              err |-> r.err, sidecar |-> r.sidecar, contentFailed |-> r.contentFailed]
  /\ UNCHANGED <<backend, uuids, streams, writers>>

DoWriteContainer(identifier, metadata, faults) ==
  \E r \in {acc_writeContainer(accessor, identifier, metadata, faults)} :
  /\ store' = r.acc.store
  /\ fs' = r.acc.fs
  /\ last' = [op |-> "writeContainer", identifier |-> identifier,
              metadata |-> IF r.err = "none" THEN metadata ELSE undefined,
              faults |-> faults, err |-> r.err]
  /\ UNCHANGED <<backend, uuids, streams, writers>>

DoDeleteResource(identifier, faults) ==
  \E r \in {acc_deleteResource(accessor, identifier, faults)} :
  /\ store' = r.acc.store
  /\ fs' = r.acc.fs
  /\ last' = [op |-> "deleteResource", identifier |-> identifier, faults |-> faults,
              err |-> r.err]
  /\ UNCHANGED <<backend, uuids, streams, writers>>

WriteDataResource ==
  \E identifier \in AccessorIds, data \in Datas :
    \E metadata \in MetadataInputs(identifier) :
      DoWriteDataResource(identifier, data, metadata, {})

WriteContainer ==
  \E identifier \in AccessorIds :
    \E metadata \in MetadataInputs(identifier) : DoWriteContainer(identifier, metadata, {})

DeleteResource == \E identifier \in AccessorIds : DoDeleteResource(identifier, {})

NextAccessor == WriteDataResource \/ WriteContainer \/ DeleteResource

SpecAccessor == InitAccessor /\ [][NextAccessor]_vars

(***************************************************************************)
(* Properties of the accessors called directly.                            *)
(***************************************************************************)
nonTypeQuads(metadata) ==
  IF isDefined(metadata) THEN {q \in metadata.quads : q[2] # RDF_type} ELSE {}

\* A data resource was written: its identifier has no trailing slash.
Written ==
  /\ last.op = "writeDataResource"
  /\ last.err = "none"
  /\ ~endsWith(last.identifier, <<"/">>)

\* C2: on both backends, after writeDataResource(id, B, M) has succeeded for a data
\* resource id, getData(id) yields exactly the bytes B and getMetadata(id) succeeds and
\* holds every quad of M that is not an RDF type.
C2_RoundTrip ==
  Written =>
    LET d == acc_getData(accessor, last.identifier)
        m == acc_getMetadata(accessor, last.identifier)
    IN /\ d.err = "none"
       /\ d.data = last.data
       /\ m.err = "none"
       /\ nonTypeQuads(last.metadata) \subseteq m.metadata.quads

ChildNames == {<<"a">>, <<"b">>, <<"a", ".meta">>}

ContainerIds == {base, path(<<"a", "/">>), path(<<"a", ".meta", "/">>)}

exists(a, identifier) == acc_getMetadata(a, identifier).err = "none"

existingChildren(a, container) ==
  {child \in {container \o name : name \in ChildNames}
             \cup {container \o name \o <<"/">> : name \in ChildNames} :
     exists(a, child)}

\* A metadata file of the file-system accessor, which is no child on its own.
isSidecarFile(a, identifier) == a.backend = "file" /\ isMetadataPath(identifier)

\* C6: on both backends, after any sequence of accessor writeDataResource,
\* writeContainer and deleteResource calls, the containment edges of getMetadata(c/)
\* of an existing container c/ are exactly the identifiers of its existing direct
\* children, whatever their names: every edge names an existing child and every
\* existing child that is no metadata file has an edge.
C6_ContainmentEdges ==
  \A container \in ContainerIds :
    LET m == acc_getMetadata(accessor, container) IN
    m.err = "none" =>
      /\ getAll(m.metadata, LDP_contains) \subseteq existingChildren(accessor, container)
      /\ \A child \in existingChildren(accessor, container) :
           ~isSidecarFile(accessor, child) => child \in getAll(m.metadata, LDP_contains)

\* The identifiers of the accessor calls that have no trailing slash.
PlainIds == {identifier \in AccessorIds : ~endsWith(identifier, <<"/">>)}

\* C11: on both backends, when a container exists at id/ then getNormalizedMetadata(id)
\* succeeds and the identifier of the metadata it returns is id/, and when a data
\* resource exists at id then getNormalizedMetadata(id/) succeeds with the identifier
\* id, with or without metadata stored with the entry.
C11_SlashNormalization ==
  \A id \in PlainIds :
    LET withSlash == id \o <<"/">>
        asPlain == acc_getNormalizedMetadata(accessor, id)
        asContainer == acc_getNormalizedMetadata(accessor, withSlash)
    IN /\ exists(accessor, withSlash) =>
            asPlain.err = "none" /\ asPlain.metadata.identifier = withSlash
       /\ exists(accessor, id) =>
            asContainer.err = "none" /\ asContainer.metadata.identifier = id

\* C12: getNormalizedMetadata of NormalizedDataAccessor calls getMetadata once, with
\* the identifier as given, when that call succeeds or fails with anything but
\* NotFound, and its outcome is then that call's; when that call fails with NotFound
\* it calls getMetadata a second and last time with the trailing slash changed, and
\* its outcome is the second call's.
C12_AtMostTwoCalls ==
  backend = "file" =>
    \A id \in AccessorIds :
      LET first == File_getMetadata(fs, id)
          retry == File_getMetadata(fs, toggled(id))
          n == File_getNormalizedMetadata(fs, id)
          outcome == [field \in DOMAIN n \ {"calls"} |-> n[field]]
      IN IF first.err = "NotFound"
         THEN n.calls = <<id, toggled(id)>> /\ outcome = retry
         ELSE n.calls = <<id>> /\ outcome = first

\* Each case has happened: a first call that succeeds, one that fails with another
\* error than NotFound, and NotFound followed by a retry that succeeds and by one that
\* fails.
C12_Witness ==
  /\ backend = "file"
  /\ \E id \in AccessorIds : File_getMetadata(fs, id).err = "none"
  /\ \E id \in AccessorIds :
       /\ File_getMetadata(fs, id).err \notin {"none", "NotFound"}
       /\ Len(File_getNormalizedMetadata(fs, id).calls) = 1
  /\ \E id \in AccessorIds :
       /\ File_getMetadata(fs, id).err = "NotFound"
       /\ File_getNormalizedMetadata(fs, id).err = "none"
       /\ Len(File_getNormalizedMetadata(fs, id).calls) = 2
  /\ \E id \in AccessorIds :
       /\ File_getMetadata(fs, id).err = "NotFound"
       /\ File_getNormalizedMetadata(fs, id).err = "NotFound"

\* The shared behaviour over a backend's getMetadata: the identifier as given and,
\* when that is not found, the identifier with its trailing slash changed.
baseBehaviour(a, identifier) ==
  LET first == acc_getMetadata(a, identifier) IN
  IF first.err = "NotFound" THEN acc_getMetadata(a, toggled(identifier)) ELSE first

\* C13: on both backends and for every identifier, getNormalizedMetadata(id) has the
\* outcome of the shared behaviour over the backend's getMetadata and, when it
\* succeeds, the same containment edges.
C13_RefinesBaseBehaviour ==
  \A id \in AccessorIds :
    LET n == acc_getNormalizedMetadata(accessor, id)
        b == baseBehaviour(accessor, id)
    IN /\ n.err = b.err
       /\ n.err = "none" =>
            getAll(n.metadata, LDP_contains) = getAll(b.metadata, LDP_contains)

\* A container was written.
WroteContainer == last.op = "writeContainer" /\ last.err = "none"

\* C14: on both backends, after writeContainer(id, M) has succeeded, the same call once
\* more succeeds and leaves the backend as the first call left it.
C14_WriteContainerIdempotent ==
  WroteContainer =>
    LET again == acc_writeContainer(accessor, last.identifier, last.metadata, {}) IN
    again.err = "none" /\ again.acc = accessor

\* A container with metadata of its own was written next to nothing of its name.
C14_Witness ==
  /\ WroteContainer
  /\ backend = "file"
  /\ last.identifier = path(<<"a", "/">>)
  /\ nonTypeQuads(last.metadata) # {}
  /\ exists(accessor, last.identifier)
  /\ acc_writeContainer(accessor, last.identifier, last.metadata, {}).err = "none"

\* C15: on both backends, after writeContainer(id) has succeeded, getMetadata of id
\* with a trailing slash succeeds, which it does for a container only; also when a
\* data resource of that name existed before.
C15_WrittenContainerExists ==
  WroteContainer => exists(accessor, ensureTrailingSlash(last.identifier))

\* The predicates of the quads a backend makes up itself when metadata is read.
generatedPredicates == {RDF_type, POSIX_size, POSIX_mtime, DCTERMS_modified, CONTENT_TYPE}

\* C16: on both backends, when writeDataResource(id, B2, M2) succeeds on a data
\* resource id that exists already, then getData(id) yields B2 and getMetadata(id)
\* succeeds and holds no quad of the earlier metadata that is neither in M2 nor made
\* up by the backend.
C16_FullyReplaces ==
  [][(/\ last'.op = "writeDataResource"
      /\ last'.err = "none"
      /\ ~endsWith(last'.identifier, <<"/">>)
      /\ exists(accessor, last'.identifier))
       => LET before == acc_getMetadata(accessor, last'.identifier).metadata.quads
              d == acc_getData(accessor', last'.identifier)
              m == acc_getMetadata(accessor', last'.identifier)
          IN /\ d.err = "none"
             /\ d.data = last'.data
             /\ m.err = "none"
             /\ \A q \in m.metadata.quads \cap before :
                  \/ q \in nonTypeQuads(last'.metadata)
                  \/ q[2] \in generatedPredicates]_vars

\* What the backend holds under an identifier, whatever its trailing slash: a data
\* resource, a container or nothing that can be reached.
kindOf(a, identifier) ==
  IF a.backend = "mem"
  THEN LET e == getEntry(a.store, identifier) IN
       IF e.err # "none" THEN "none"
       ELSE IF isDataEntry(e.entry) THEN "data" ELSE "container"
  ELSE LET s == getStats(a.fs, mapUrlToFilePath(identifier).path) IN
       IF s.err # "none" THEN "none"
       ELSE IF isFile(s.stats) THEN "data"
       ELSE IF isDirectory(s.stats) THEN "container" ELSE "none"

\* The trailing slash of the identifier is the one of the kind: containers end in a
\* slash, data resources do not.
shapeAgrees(a, identifier) ==
  \/ kindOf(a, identifier) = "data" /\ ~endsWith(identifier, <<"/">>)
  \/ kindOf(a, identifier) = "container" /\ endsWith(identifier, <<"/">>)

\* C18: on both backends getMetadata(id) fails with NotFound when a data resource is
\* asked for with a trailing slash or a container without one, and succeeds only
\* when the trailing slash agrees with the kind of what is stored.
C18_GetMetadataShape ==
  \A id \in AccessorIds :
    LET m == acc_getMetadata(accessor, id) IN
    /\ (kindOf(accessor, id) # "none" /\ ~shapeAgrees(accessor, id)) => m.err = "NotFound"
    /\ m.err = "none" => shapeAgrees(accessor, id)

\* A container asked for without its slash and a data resource in it asked for with
\* one, both NotFound, while both are found in their own shape.
C18_Witness ==
  /\ kindOf(accessor, path(<<"a">>)) = "container"
  /\ acc_getMetadata(accessor, path(<<"a">>)).err = "NotFound"
  /\ acc_getMetadata(accessor, path(<<"a", "/">>)).err = "none"
  /\ kindOf(accessor, path(<<"a", "/", "b">>)) = "data"
  /\ acc_getMetadata(accessor, path(<<"a", "/", "b">>)).err = "none"
  /\ kindOf(accessor, path(<<"a", ".meta", "/">>)) = "data"
  /\ acc_getMetadata(accessor, path(<<"a", ".meta", "/">>)).err = "NotFound"

\* C19: on both backends deleteResource(id) of the accessor fails with NotFound and
\* leaves the backend as it was when nothing is stored at id or when the trailing
\* slash of id disagrees with the kind of what is stored.
C19_DeleteShape ==
  [][(last'.op = "deleteResource" /\ ~shapeAgrees(accessor, last'.identifier))
       => (last'.err = "NotFound" /\ store' = store /\ fs' = fs)]_vars

\* The identifiers getData is asked for: those written, and one below a name
\* that is never written.
GetDataIds == AccessorIds \cup {path(<<"z", "/", "b">>)}

\* C20: in the in-memory backend getData(id) succeeds when id resolves to a data
\* entry and fails with NotFound, and with nothing else, in every other case:
\* nothing is stored at id, id resolves to a container or to the root, or a part of
\* the path before the last names a data entry or nothing.
C20_GetDataNotFound ==
  backend = "mem" =>
    \A id \in GetDataIds :
      LET d == Mem_getData(store, id) IN
      IF kindOf(accessor, id) = "data" THEN d.err = "none" ELSE d.err = "NotFound"

\* Each case at once: a data entry that is read, the root, a container, a path through
\* the data entry, a path through a missing entry and a missing entry.
C20_Witness ==
  /\ backend = "mem"
  /\ Mem_getData(store, path(<<"a">>)).err = "none"
  /\ Mem_getData(store, path(<<"a">>)).data = <<"d2", "d3">>
  /\ Mem_getData(store, base).err = "NotFound"
  /\ kindOf(accessor, path(<<"a", ".meta", "/">>)) = "container"
  /\ Mem_getData(store, path(<<"a", ".meta", "/">>)).err = "NotFound"
  /\ Mem_getData(store, path(<<"a", "/", "b">>)).err = "NotFound"
  /\ Mem_getData(store, path(<<"z", "/", "b">>)).err = "NotFound"

\* C21: in the file backend writeDataResource on an identifier whose file path ends
\* with the extension of the metadata files fails with Conflict and leaves the file
\* system as it was: neither the file nor a metadata file is written.
C21_NoWriteToMetadataPath ==
  [][(/\ backend = "file"
      /\ last'.op = "writeDataResource"
      /\ isMetadataPath(mapUrlToFilePath(last'.identifier).path))
       => (last'.err = "Conflict" /\ fs' = fs)]_vars

\* Such a write, with metadata of its own, was refused next to an existing resource.
C21_Witness ==
  /\ backend = "file"
  /\ last.op = "writeDataResource"
  /\ last.identifier = path(<<"a", ".meta">>)
  /\ last.hasMetadata
  /\ last.err = "Conflict"
  /\ exists(accessor, path(<<"a">>))
  /\ fs_lstat(fs, mapUrlToFilePath(last.identifier).path).err = "ENOENT"
  /\ fs_lstat(fs, getMetadataPath(mapUrlToFilePath(last.identifier).path)).err = "ENOENT"

(***************************************************************************)
(* The file-system accessor with file-system steps that fail: every call   *)
(* names the set of its steps that fail for a reason outside the accessor. *)
(***************************************************************************)
MaxFaults == 1

FaultIds == {path(<<"a">>), path(<<"a", "/">>), path(<<"a", "/", "b">>)}

FaultSets(kinds) == {f \in SUBSET kinds : Cardinality(f) <= MaxFaults}

InitFaults ==
  /\ backend = "file"
  /\ store = Mem_constructor
  /\ fs = Fs_empty
  /\ uuids = 0
  /\ last = [op |-> "init"]
  /\ streams = noStreams
  /\ writers = noWriters

FaultyWriteDataResource ==
  \E identifier \in FaultIds,
     faults \in FaultSets({"sidecarStream", "contentOpen", "contentStream", "unlinkMeta"}) :
    \E metadata \in MetadataInputs(identifier) :
      DoWriteDataResource(identifier, <<"d1">>, metadata, faults)

FaultyWriteContainer ==
  \E identifier \in FaultIds, faults \in FaultSets({"mkdir", "sidecarStream"}) :
    \E metadata \in MetadataInputs(identifier) : DoWriteContainer(identifier, metadata, faults)

FaultyDeleteResource ==
  \E identifier \in FaultIds, faults \in FaultSets({"unlinkMeta", "removePrimary"}) :
    DoDeleteResource(identifier, faults)

NextFaults == FaultyWriteDataResource \/ FaultyWriteContainer \/ FaultyDeleteResource

SpecFaults == InitFaults /\ [][NextFaults]_vars

(***************************************************************************)
(* getData of the in-memory accessor with its streams: one entry is        *)
(* written, getData is called on it, the piped streams flow and the        *)
(* callers read what was returned to them, each at its own pace or not at  *)
(* all.                                                                    *)
(***************************************************************************)
MaxReaders == 3

\* Contents of one chunk, and of more chunks than a stream buffers.
StreamDatas ==
  {<<"d1">>, [i \in 1..(OutputHighWaterMark + 1) |-> "d" \o ToString(i)]}

InitStream ==
  /\ backend = "mem"
  /\ store = Mem_constructor
  /\ fs = Fs_empty
  /\ uuids = 0
  /\ last = [op |-> "init"]
  /\ streams = noStreams
  /\ writers = noWriters

callers == DOMAIN streams.outputs

output(k) == streams.heap[streams.outputs[k]]

\* The caller has read all there is: its stream is empty and has ended.
finished(k) == output(k).buffer = <<>> /\ output(k).ended

\* writeDataResource(id, data): the entry holds streamifyArray of the chunks.
StreamWriteDataResource ==
  \E data \in StreamDatas :
    /\ streams.heap = <<>>
    /\ streams' = [noStreams EXCEPT !.heap = <<streamifyArray(data)>>, !.data = 1]
    /\ last' = [op |-> "writeDataResource", data |-> data]
    /\ UNCHANGED <<backend, store, fs, uuids, writers>>

\* getData(id): copyData.  order tells whether the call comes after every earlier
\* caller has finished, before any earlier caller has read, or in between.
StreamGetData ==
  /\ streams.heap # <<>>
  /\ Len(streams.outputs) < MaxReaders
  /\ streams' =
       [pipeCopyData(streams) EXCEPT
          !.received = Append(@, <<>>),
          !.order = Append(@, IF \A k \in callers : finished(k) THEN "sequential"
                              ELSE IF \A k \in callers : streams.received[k] = <<>>
                              THEN "concurrent" ELSE "overlapping")]
  /\ UNCHANGED <<backend, store, fs, uuids, last, writers>>

Flow ==
  \E i \in DOMAIN streams.heap :
    /\ canFlow(streams.heap[i])
    /\ streams' = [streams EXCEPT !.heap = flow(@, i)]
    /\ UNCHANGED <<backend, store, fs, uuids, last, writers>>

End ==
  \E i \in DOMAIN streams.heap :
    /\ canEnd(streams.heap, i)
    /\ streams' = [streams EXCEPT !.heap = endPipes(@, i)]
    /\ UNCHANGED <<backend, store, fs, uuids, last, writers>>

Consume ==
  \E k \in callers :
    /\ output(k).buffer # <<>>
    /\ streams' = [streams EXCEPT
                     !.received[k] = Append(@, Head(output(k).buffer)),
                     !.heap = readChunk(@, streams.outputs[k])]
    /\ UNCHANGED <<backend, store, fs, uuids, last, writers>>

NextStream == StreamWriteDataResource \/ StreamGetData \/ Flow \/ End \/ Consume

SpecStream == InitStream /\ [][NextStream]_vars

\* No stream can hand on a chunk or its end: only the callers can act.
quiescent ==
  \A i \in DOMAIN streams.heap : ~canFlow(streams.heap[i]) /\ ~canEnd(streams.heap, i)

\* Nothing more reaches caller k unless another caller reads.
starved(k) == quiescent /\ output(k).buffer = <<>>

\* What the entry holds: the chunks its data stream has, once it has them all.
retained == streams.heap[streams.data]

\* C7: in-memory accessor: after writeDataResource(id, B), getData calls of which
\* each comes after the callers before it have read to the end each yield the full
\* B: a caller with nothing left to wait for has read exactly B and its stream's
\* end, and what the entry holds then is B again.
C7_SequentialReads ==
  \A k \in callers :
    ((\A j \in 1..k : streams.order[j] = "sequential") /\ starved(k))
      => /\ finished(k)
         /\ streams.received[k] = last.data
         /\ (k = Len(streams.outputs) =>
               retained.buffer = last.data /\ retained.ended)

C7_Witness ==
  /\ Len(streams.outputs) = MaxReaders
  /\ \A k \in callers : streams.order[k] = "sequential" /\ finished(k)
  /\ quiescent
  /\ Len(last.data) > OutputHighWaterMark
  /\ streams.received[MaxReaders] = last.data

\* C8: in-memory accessor: when a second getData(id) is called before the first
\* caller has read anything, each of the two callers gets the full stored bytes,
\* in whatever order they read and also when the other one never reads: a caller
\* to whom nothing more comes unless the other one reads has read them all.
C8_ConcurrentReads ==
  \A k \in callers :
    (k <= 2 /\ Len(streams.outputs) >= 2 /\ streams.order[2] = "concurrent" /\ starved(k))
      => finished(k) /\ streams.received[k] = last.data

(***************************************************************************)
(* The store over either backend: any sequence of store operations.  last  *)
(* records the latest operation, its inputs and its outcome.               *)
(***************************************************************************)
MaxUuid == 1

\* The identifier of the metadata of an incoming representation: a blank node.
blank == <<"_:b">>

representationOf(binary, data, quads) ==
  [binary |-> binary, data |-> data, metadata |-> [identifier |-> blank, quads |-> quads]]

\* Bytes without a type, a container with a body of RDF, and a typed data resource
\* that is not binary.
Representations ==
  {representationOf(TRUE, <<"d1">>, {}),
   representationOf(TRUE, <<"ttl:likes">>, {<<blank, RDF_type, LDP_Container>>}),
   representationOf(FALSE, <<"d2">>, {<<blank, RDF_type, LDP_Resource>>})}

Slugs == {undefined, [value |-> <<"x">>]}

withSlug(representation, slug) ==
  IF isDefined(slug)
  THEN [representation EXCEPT !.metadata = addQuads(@, {<<blank, HTTP_slug, slug.value>>})]
  ELSE representation

\* Identifiers outside the base: another host, and the base without its slash.
BadIds == {<<"q", "/", "x">>, <<"r">>}

StoreIds ==
  {path(<<"x">>), path(<<"c", "/">>), path(<<"c", "/", "x">>),
   path(<<"c", "/", "d", "/", "x">>)}

ContainerArgs == {path(<<"c", "/">>), path(<<"c">>)}

DeleteIds == StoreIds \cup {base, path(<<"c", "/", "d", "/">>)}

Init ==
  /\ backend \in {"mem", "file"}
  /\ store = Mem_constructor
  /\ fs = Fs_empty
  /\ uuids = 0
  /\ last = [op |-> "init"]
  /\ streams = noStreams
  /\ writers = noWriters

GetRepresentationOf(identifiers) ==
  \E identifier \in identifiers :
    \E r \in {Store_getRepresentation(accessor, identifier)} :
    /\ store' = r.acc.store
    /\ fs' = r.acc.fs
    /\ last' = [op |-> "getRepresentation", identifier |-> identifier, err |-> r.err,
                data |-> IF r.err = "none" /\ r.representation.binary
                         THEN r.representation.data ELSE <<>>]
    /\ UNCHANGED <<backend, uuids, streams, writers>>

GetRepresentation == GetRepresentationOf(StoreIds \cup BadIds)

AddResourceWith(containers, slugs, representations) ==
  \E container \in containers, slug \in slugs,
     representation \in representations :
    \E r \in {Store_addResource(accessor, container, withSlug(representation, slug), uuids)} :
    /\ r.uuids <= MaxUuid
    /\ store' = r.acc.store
    /\ fs' = r.acc.fs
    /\ uuids' = r.uuids
    /\ last' = [op |-> "addResource", identifier |-> container, slug |-> slug,
                representation |-> representation, err |-> r.err,
                newID |-> IF r.err = "none" THEN r.identifier ELSE <<>>]
    /\ UNCHANGED <<backend, streams, writers>>

AddResourceOf(containers) == AddResourceWith(containers, Slugs, Representations)

AddResource == AddResourceOf(ContainerArgs \cup BadIds)

SetRepresentationWith(identifiers, representations) ==
  \E identifier \in identifiers, representation \in representations :
    \E r \in {Store_setRepresentation(accessor, identifier, representation)} :
    /\ store' = r.acc.store
    /\ fs' = r.acc.fs
    /\ last' = [op |-> "setRepresentation", identifier |-> identifier,
                representation |-> representation, err |-> r.err,
                created |-> IF r.err = "none" THEN r.created ELSE <<>>]
    /\ UNCHANGED <<backend, uuids, streams, writers>>

SetRepresentationOf(identifiers) == SetRepresentationWith(identifiers, Representations)

SetRepresentation == SetRepresentationOf(StoreIds \cup BadIds)

ModifyResource ==
  \E identifier \in {path(<<"c", "/", "x">>)} \cup BadIds :
    \E r \in {Store_modifyResource(accessor, identifier)} :
    /\ store' = r.acc.store
    /\ fs' = r.acc.fs
    /\ last' = [op |-> "modifyResource", identifier |-> identifier, err |-> r.err]
    /\ UNCHANGED <<backend, uuids, streams, writers>>

StoreDeleteResourceOf(identifiers) ==
  \E identifier \in identifiers :
    \E r \in {Store_deleteResource(accessor, identifier)} :
    /\ store' = r.acc.store
    /\ fs' = r.acc.fs
    /\ last' = [op |-> "deleteResource", identifier |-> identifier, err |-> r.err]
    /\ UNCHANGED <<backend, uuids, streams, writers>>

StoreDeleteResource == StoreDeleteResourceOf(DeleteIds \cup BadIds)

Next ==
  \/ GetRepresentation
  \/ AddResource
  \/ SetRepresentation
  \/ ModifyResource
  \/ StoreDeleteResource

Spec == Init /\ [][Next]_vars

(***************************************************************************)
(* The store over either backend with a resource name that ends in .meta,  *)
(* the extension of the metadata files of the file accessor.               *)
(***************************************************************************)
MetaNameIds ==
  {path(<<"c", "/">>), path(<<"c", "/", "a">>), path(<<"c", "/", "a", ".meta", "/">>)}

NextMetaNames ==
  \/ GetRepresentationOf(MetaNameIds)
  \/ SetRepresentationOf(MetaNameIds)
  \/ StoreDeleteResourceOf(MetaNameIds)

SpecMetaNames == Init /\ [][NextMetaNames]_vars

(***************************************************************************)
(* The store over either backend called on its root container and on a     *)
(* resource in it.                                                         *)
(***************************************************************************)
RootIds == {base, path(<<"x">>)}

NextRoot ==
  \/ GetRepresentationOf(RootIds)
  \/ AddResourceOf({base})
  \/ SetRepresentationOf(RootIds)
  \/ StoreDeleteResourceOf(RootIds \cup BadIds)

SpecRoot == Init /\ [][NextRoot]_vars

(***************************************************************************)
(* The store over either backend with addResource called on parents of     *)
(* every kind: missing, a data resource, a container, two levels deep,     *)
(* each named with and without its trailing slash.                         *)
(***************************************************************************)
ParentArgs ==
  {path(<<"x">>), path(<<"x", "/">>), path(<<"c", "/", "d">>), path(<<"c", "/", "d", "/">>)}

ParentTargets == {path(<<"x">>), path(<<"c", "/", "d", "/">>)}

NextParents ==
  \/ AddResourceOf(ParentArgs)
  \/ SetRepresentationOf(ParentTargets)
  \/ StoreDeleteResourceOf(ParentTargets \cup {path(<<"c", "/">>)})

SpecParents == Init /\ [][NextParents]_vars

(***************************************************************************)
(* The store written to under both slash shapes of a name, one and two     *)
(* levels deep, with representations of either declared kind or none and   *)
(* with a body that states a containment edge.                             *)
(***************************************************************************)
KindIds ==
  {path(<<"x">>), path(<<"x", "/">>), path(<<"c", "/", "d">>), path(<<"c", "/", "d", "/">>)}

\* A container whose body states a containment edge.
withContainment == representationOf(TRUE, <<"ttl:contains">>, {<<blank, RDF_type, LDP_Container>>})

\* The representations of the store's own runs, the container above and typed binary data.
KindRepresentations ==
  Representations
    \cup {withContainment, representationOf(TRUE, <<"d3">>, {<<blank, RDF_type, LDP_Resource>>})}

NextKinds ==
  \/ AddResourceWith({path(<<"x", "/">>), path(<<"c", "/", "d", "/">>)}, Slugs, {withContainment})
  \/ SetRepresentationWith(KindIds, KindRepresentations)
  \/ StoreDeleteResourceOf(KindIds \cup {path(<<"c", "/">>)})

SpecKinds == Init /\ [][NextKinds]_vars

(***************************************************************************)
(* The store written to by addResource and setRepresentation with          *)
(* representations that carry the suggested name in their metadata or not. *)
(***************************************************************************)
HintIds == {path(<<"x">>), path(<<"c", "/">>)}

HintedRepresentations ==
  {withSlug(representation, slug) : representation \in Representations, slug \in Slugs}

NextHints ==
  \/ AddResourceWith({path(<<"c", "/">>)}, Slugs, Representations)
  \/ SetRepresentationWith(HintIds, HintedRepresentations)

SpecHints == Init /\ [][NextHints]_vars

(***************************************************************************)
(* The store written to at a name and one and two levels below it, so that *)
(* a write can find a data resource where it needs a container.            *)
(***************************************************************************)
AncestorIds ==
  {path(<<"x">>), path(<<"x", "/", "y">>), path(<<"x", "/", "y", "/", "z">>)}

NextAncestors ==
  \/ AddResourceWith({path(<<"x", "/", "y", "/">>)}, Slugs, Representations)
  \/ SetRepresentationWith(AncestorIds \cup {path(<<"x", "/", "y", "/">>)}, Representations)
  \/ StoreDeleteResourceOf({path(<<"x">>), path(<<"x", "/">>)})

SpecAncestors == Init /\ [][NextAncestors]_vars

(***************************************************************************)
(* addResource with suggested names of every form: none, a name, a name    *)
(* that ends in a slash and a slash alone; with representations of either  *)
(* declared kind or none.                                                  *)
(***************************************************************************)
SlugInputs == Slugs \cup {[value |-> <<"x", "/">>], [value |-> <<"/">>]}

NextSlugs ==
  \/ AddResourceWith(ContainerArgs, SlugInputs, KindRepresentations)
  \/ SetRepresentationWith({path(<<"c", "/">>), path(<<"c", "/", "x">>)}, Representations)
  \/ StoreDeleteResourceOf({path(<<"c", "/">>), path(<<"c", "/", "x">>)})

SpecSlugs == Init /\ [][NextSlugs]_vars

(***************************************************************************)
(* Two setRepresentation calls on one identifier over the in-memory        *)
(* accessor, interleaved at their await points.  writers holds, for each   *)
(* call, where it stands (pc), how it ended (err), the container it is     *)
(* about to look up (checking), the containers it has found missing and    *)
(* will write, innermost last (creating), and the entries object it took   *)
(* from getParentEntry (captured); for each container the number of the    *)
(* object that is its entry now (objects: writeContainer puts a new object *)
(* in its place); and, as history, the calls that found nothing stored     *)
(* before any accessor write (observed), the number of accessor writes     *)
(* called (writes) and the calls in the order their data resource was      *)
(* assigned (completed).                                                   *)
(***************************************************************************)
Writers == {"A", "B"}

\* One identifier in the root and one in a container that does not exist.
ConcurrentIds == {path(<<"x">>), path(<<"c", "/", "x">>)}

ConcurrentContainers == {base, path(<<"c", "/">>)}

\* Each call brings its own bytes and its own statement.
writerRepresentation(w) == representationOf(TRUE, <<w>>, {<<blank, LIKES, <<w>>>>})

InitConcurrent ==
  /\ backend = "mem"
  /\ store = Mem_constructor
  /\ fs = Fs_empty
  /\ uuids = 0
  /\ last = [op |-> "init"]
  /\ streams = noStreams
  /\ \E identifier \in ConcurrentIds :
       writers = [identifier |-> identifier,
                  pc |-> [w \in Writers |-> "canHandle"],
                  err |-> [w \in Writers |-> "none"],
                  checking |-> [w \in Writers |-> <<>>],
                  creating |-> [w \in Writers |-> <<>>],
                  captured |-> [w \in Writers |-> 0],
                  objects |-> [c \in ConcurrentContainers |-> 0],
                  observed |-> {},
                  writes |-> 0,
                  completed |-> <<>>,
                  deleter |-> [pc |-> "lookup", err |-> "none"]]

\* setRepresentation up to the call of writeData: [err, isContainer, isNew].
checkExisting(a, identifier, representation) ==
  With([old \in {acc_getNormalizedMetadata(a, identifier)} |->
  With([isContainer \in {isNewContainer(representation.metadata, [value |-> identifier])} |->
  With([oldIsContainer \in {IF old.err = "none" THEN isExistingContainer(old.metadata)
      ELSE [err |-> "none", value |-> isContainer]}
      |->
    IF old.err \notin {"none", "NotFound"} THEN [err |-> old.err]
    ELSE IF old.err = "none" /\ old.metadata.identifier # identifier
    THEN [err |-> "Conflict"]
    ELSE IF oldIsContainer.err # "none"
    THEN [err |-> "Error"]
    ELSE IF isContainer # oldIsContainer.value
    THEN [err |-> "Conflict"]
    ELSE IF isContainer # endsWith(identifier, <<"/">>)
    THEN [err |-> "Unsupported"]
    ELSE [err |-> "none", isContainer |-> isContainer, isNew |-> old.err # "none"]])])])

\* The call ends with the error.
failed(w, err) == [writers EXCEPT !.pc[w] = "done", !.err[w] = err]

\* validateIdentifier and canHandle, up to the first await.
Begin(w) ==
  /\ writers.pc[w] = "canHandle"
  /\ writers' = IF validateIdentifier(writers.identifier) # "none"
                THEN failed(w, "NotFound")
                ELSE IF acc_canHandle(accessor, writerRepresentation(w)) # "none"
                THEN failed(w, acc_canHandle(accessor, writerRepresentation(w)))
                ELSE [writers EXCEPT !.pc[w] = "lookup"]
  /\ UNCHANGED <<backend, store, fs, uuids, last, streams>>

\* getNormalizedMetadata of the identifier and the checks on what it returned; a
\* resource that is new has its container looked up next.
Lookup(w) ==
  /\ writers.pc[w] = "lookup"
  /\ \E r \in {checkExisting(accessor, writers.identifier, writerRepresentation(w))} :
       writers' =
         IF r.err # "none" THEN failed(w, r.err)
         ELSE IF r.isNew
         THEN [writers EXCEPT !.pc[w] = "ancestors",
                 !.checking[w] = getContainer(writers.identifier).path,
                 !.observed = IF writers.writes = 0 THEN @ \cup {w} ELSE @]
         ELSE [writers EXCEPT !.pc[w] = "write"]
  /\ UNCHANGED <<backend, store, fs, uuids, last, streams>>

\* createRecursiveContainers that looks up the same container again when it is
\* missing, and not the container it is in.
CheckAncestor_SameContainer(w) ==
  /\ writers.pc[w] = "ancestors"
  /\ \E m \in {acc_getNormalizedMetadata(accessor, writers.checking[w])} :
       writers' =
         IF m.err = "none"
         THEN IF isExistingContainer(m.metadata).err # "none" THEN failed(w, "Error")
              ELSE IF ~isExistingContainer(m.metadata).value THEN failed(w, "Conflict")
              ELSE [writers EXCEPT
                      !.pc[w] = IF writers.creating[w] = <<>> THEN "write" ELSE "create"]
         ELSE IF m.err = "NotFound"
         THEN IF getContainer(writers.checking[w]).err # "none" THEN failed(w, "Error")
              ELSE writers
         ELSE failed(w, m.err)
  /\ UNCHANGED <<backend, store, fs, uuids, last, streams>>

\* createRecursiveContainers up to its await: the container is there, or it is not
\* and its own container is looked up first.
CheckAncestor(w) ==
  /\ writers.pc[w] = "ancestors"
  /\ \E m \in {acc_getNormalizedMetadata(accessor, writers.checking[w])} :
       writers' =
         IF m.err = "none"
         THEN IF isExistingContainer(m.metadata).err # "none" THEN failed(w, "Error")
              ELSE IF ~isExistingContainer(m.metadata).value THEN failed(w, "Conflict")
              ELSE [writers EXCEPT
                      !.pc[w] = IF writers.creating[w] = <<>> THEN "write" ELSE "create"]
         ELSE IF m.err = "NotFound"
         THEN IF getContainer(writers.checking[w]).err # "none" THEN failed(w, "Error")
              ELSE [writers EXCEPT
                      !.creating[w] = Append(@, writers.checking[w]),
                      !.checking[w] = getContainer(writers.checking[w]).path]
         ELSE failed(w, m.err)
  /\ UNCHANGED <<backend, store, fs, uuids, last, streams>>

\* writeData of an empty container that was found missing: writeContainer puts a new
\* object in the place of whatever entry is there.
CreateAncestor(w) ==
  /\ writers.pc[w] = "create"
  /\ \E container \in {writers.creating[w][Len(writers.creating[w])]} :
     \E r \in {writeData(accessor, container, getEmptyContainerRepresentation(container),
                         TRUE, FALSE)} :
       /\ store' = r.acc.store
       /\ fs' = r.acc.fs
       /\ writers' =
            IF r.err # "none" THEN failed(w, r.err)
            ELSE [writers EXCEPT
                    !.creating[w] = SubSeq(@, 1, Len(@) - 1),
                    !.objects[container] = @ + 1,
                    !.writes = @ + 1,
                    !.pc[w] = IF Len(writers.creating[w]) = 1 THEN "write" ELSE "create"]
  /\ UNCHANGED <<backend, uuids, last, streams>>

\* writeDataResource up to its await: getParentEntry, and the entries object of the
\* parent that the assignment will go to.
CallWrite(w) ==
  /\ writers.pc[w] = "write"
  /\ writers' =
       IF getParentEntry(store, writers.identifier).err # "none"
       THEN failed(w, getParentEntry(store, writers.identifier).err)
       ELSE [writers EXCEPT
               !.pc[w] = "drain",
               !.writes = @ + 1,
               !.captured[w] = writers.objects[getContainer(writers.identifier).path]]
  /\ UNCHANGED <<backend, store, fs, uuids, last, streams>>

\* The data has been read: the entry is assigned in the object that was taken, which
\* is in the store only as long as no writeContainer has replaced it.
Assign(w) ==
  /\ writers.pc[w] = "drain"
  /\ \E r \in {writeData(accessor, writers.identifier, writerRepresentation(w),
                         FALSE, FALSE)} :
       /\ store' = IF writers.captured[w] = writers.objects[getContainer(writers.identifier).path]
                   THEN r.acc.store ELSE store
       /\ fs' = fs
  /\ writers' = [writers EXCEPT !.pc[w] = "done", !.completed = Append(@, w)]
  /\ UNCHANGED <<backend, uuids, last, streams>>

NextConcurrent ==
  \E w \in Writers :
    \/ Begin(w)
    \/ Lookup(w)
    \/ CheckAncestor(w)
    \/ CreateAncestor(w)
    \/ CallWrite(w)
    \/ Assign(w)

SpecConcurrent == InitConcurrent /\ [][NextConcurrent]_vars

\* Every call that can go on does so in the end: the event loop runs each
\* continuation that is ready.
SpecConcurrentFair == SpecConcurrent /\ WF_vars(NextConcurrent)

(***************************************************************************)
(* The two setRepresentation calls together with one deleteResource call   *)
(* of the store on the container of their identifier, interleaved at the   *)
(* await points.  writers.deleter tells where the deleteResource call      *)
(* stands and how it ended.                                                *)
(***************************************************************************)
\* deleteResource up to its await: the checks and getMetadata of the container.
DeleteLookup ==
  /\ writers.deleter.pc = "lookup"
  /\ \E container \in {getContainer(writers.identifier).path} :
     \E m \in {acc_getMetadata(accessor, container)} :
       writers' =
         [writers EXCEPT !.deleter =
            IF validateIdentifier(container) # "none" THEN [pc |-> "done", err |-> "NotFound"]
            ELSE IF ensureTrailingSlash(container) = base
            THEN [pc |-> "done", err |-> "MethodNotAllowed"]
            ELSE IF m.err # "none" THEN [pc |-> "done", err |-> m.err]
            ELSE IF getAll(m.metadata, LDP_contains) # {}
            THEN [pc |-> "done", err |-> "Conflict"]
            ELSE [pc |-> "remove", err |-> "none"]]
  /\ UNCHANGED <<backend, store, fs, uuids, last, streams>>

\* The accessor's deleteResource: the entry of the container leaves its parent.
DeleteRemove ==
  /\ writers.deleter.pc = "remove"
  /\ \E container \in {getContainer(writers.identifier).path} :
     \E r \in {acc_deleteResource(accessor, container, {})} :
       /\ store' = r.acc.store
       /\ fs' = r.acc.fs
       /\ writers' = [writers EXCEPT
                        !.deleter = [pc |-> "done", err |-> r.err],
                        !.objects[container] = IF r.err = "none" THEN @ + 1 ELSE @]
  /\ UNCHANGED <<backend, uuids, last, streams>>

NextDeleting == NextConcurrent \/ DeleteLookup \/ DeleteRemove

SpecDeleting == InitConcurrent /\ [][NextDeleting]_vars

(***************************************************************************)
(* Properties of the store.  A step of the store is told by last', the     *)
(* state before it by the unprimed variables.                              *)
(***************************************************************************)
StoreOps ==
  {"getRepresentation", "addResource", "setRepresentation", "modifyResource",
   "deleteResource"}

\* C1: for every identifier that does not start with the base, getRepresentation,
\* addResource, setRepresentation, modifyResource and deleteResource fail with
\* NotFound, whatever the representation, and leave the backend as it was.
C1_NotFoundOutsideBase ==
  [][(last'.op \in StoreOps /\ ~startsWith(last'.identifier, base))
       => (last'.err = "NotFound" /\ store' = store /\ fs' = fs)]_vars

C1_Witness ==
  /\ last.op = "setRepresentation"
  /\ last.identifier = <<"r">>
  /\ ~last.representation.binary
  /\ last.err = "NotFound"
  /\ exists(accessor, path(<<"c", "/", "x">>))

\* Every identifier a resource of the store can have here.
ResourceIds ==
  StoreIds \cup DeleteIds
    \cup {path(<<"c", "/", "x", "/">>), path(<<"c", "/", "d", "/">>)}
    \cup MetaNameIds
    \cup {path(<<"c", "/">> \o uuid(n)) : n \in 1..MaxUuid}
    \cup {path(<<"c", "/">> \o uuid(n) \o <<"/">>) : n \in 1..MaxUuid}

\* The quads about the resource itself, but for its containment edges.
ownQuads(metadata) ==
  {q \in metadata.quads : q[1] = metadata.identifier /\ q[2] # LDP_contains}

\* What reading a resource shows of it: its own metadata and its content.
view(a, identifier) ==
  LET m == acc_getMetadata(a, identifier)
      d == acc_getData(a, identifier)
  IN [metadata |-> IF m.err = "none" THEN ownQuads(m.metadata) ELSE {m.err},
      data |-> IF d.err = "none" THEN d.data ELSE <<d.err>>]

\* The containers between the base and an identifier, the nearest last.
RECURSIVE ancestors(_)
ancestors(identifier) ==
  LET parent == getContainer(identifier).path IN
  IF parent = base THEN <<>> ELSE Append(ancestors(parent), parent)

absent(a, identifier) == acc_getNormalizedMetadata(a, identifier).err = "NotFound"

\* The quads of a container's body: what is neither derived nor a type.
bodyQuads(metadata) ==
  {q \in ownQuads(metadata) :
     q[2] \notin {RDF_type, POSIX_size, POSIX_mtime, DCTERMS_modified}}

isEmptyContainer(a, identifier) ==
  LET m == acc_getMetadata(a, identifier) IN
  /\ m.err = "none"
  /\ isExistingContainer(m.metadata).err = "none"
  /\ isExistingContainer(m.metadata).value
  /\ bodyQuads(m.metadata) = {}

Range(s) == {s[i] : i \in DOMAIN s}

\* Two identifiers that name one resource: they differ in trailing slashes at most.
sameResource(a, b) == trimTrailingSlashes(a) = trimTrailingSlashes(b)

\* C3: when setRepresentation(id, repr) succeeds for an identifier none of whose
\* ancestors below the base exists, afterwards every ancestor is a container with an
\* empty body whose own getMetadata succeeds, id holds the content of repr, and
\* every resource that existed before is as it was.
C3_CascadingCreation ==
  [][(/\ last'.op = "setRepresentation"
      /\ last'.err = "none"
      /\ ancestors(last'.identifier) # <<>>
      /\ \A c \in Range(ancestors(last'.identifier)) : absent(accessor, c))
       => (/\ \A c \in Range(ancestors(last'.identifier)) : isEmptyContainer(accessor', c)
           /\ acc_getData(accessor', last'.identifier).err = "none"
           /\ acc_getData(accessor', last'.identifier).data = last'.representation.data
           /\ \A other \in ResourceIds :
                sameResource(other, base) \/ sameResource(other, last'.identifier)
                  \/ (\E c \in Range(ancestors(last'.identifier)) : sameResource(other, c))
                  \/ view(accessor', other) = view(accessor, other))]_vars

C3_Witness ==
  /\ last.op = "setRepresentation"
  /\ last.err = "none"
  /\ last.identifier = path(<<"c", "/", "d", "/", "x">>)
  /\ last.created = <<path(<<"c", "/">>), path(<<"c", "/", "d", "/">>)>>
  /\ exists(accessor, path(<<"x">>))

\* The children of a container that exist, in either form of the container's name.
childrenOf(a, container) ==
  {child \in ResourceIds :
     /\ child # base
     /\ getContainer(child).path = ensureTrailingSlash(container)
     /\ exists(a, child)}

isContainerAt(a, container) ==
  LET m == acc_getNormalizedMetadata(a, container) IN
  /\ m.err = "none"
  /\ isExistingContainer(m.metadata).err = "none"
  /\ isExistingContainer(m.metadata).value

\* The suggested name is taken: a child has it, with or without a trailing slash.
collides(a, container, slug) ==
  /\ isDefined(slug)
  /\ \E child \in childrenOf(a, container) :
       trimTrailingSlashes(child) = ensureTrailingSlash(container) \o slug.value

\* C4: when addResource is called on an existing container under the base, named with
\* or without its trailing slash, with a suggested name that a child of the container already
\* has in either slash form, it succeeds, returns an identifier different from every
\* existing child and leaves every existing child's content and metadata untouched.
C4_NeverOverwrites ==
  [][(/\ last'.op = "addResource"
      /\ startsWith(last'.identifier, base)
      /\ isContainerAt(accessor, last'.identifier)
      /\ collides(accessor, last'.identifier, last'.slug)
      /\ acc_canHandle(accessor, last'.representation) = "none")
       => (/\ last'.err = "none"
           /\ last'.newID \notin childrenOf(accessor, last'.identifier)
           /\ \A child \in childrenOf(accessor, last'.identifier) :
                view(accessor', child) = view(accessor, child))]_vars

\* C5: deleteResource on a container other than the root that has a child fails
\* with Conflict and leaves the backend as it was; on such a container without
\* children it succeeds and the container exists no more.
C5_DeleteOnlyEmptyContainers ==
  [][(/\ last'.op = "deleteResource"
      /\ endsWith(last'.identifier, <<"/">>)
      /\ last'.identifier # base
      /\ isContainerAt(accessor, last'.identifier))
       => IF childrenOf(accessor, last'.identifier) # {}
          THEN last'.err = "Conflict" /\ store' = store /\ fs' = fs
          ELSE last'.err = "none" /\ absent(accessor', last'.identifier)]_vars

C5_Witness ==
  /\ last.op = "deleteResource"
  /\ last.identifier = path(<<"c", "/">>)
  /\ last.err = "Conflict"
  /\ isContainerAt(accessor, last.identifier)
  /\ exists(accessor, path(<<"c", "/", "x">>))

C5_WitnessEmptied ==
  /\ last.op = "deleteResource"
  /\ last.identifier = path(<<"c", "/">>)
  /\ last.err = "none"
  /\ absent(accessor, last.identifier)

\* The identifiers of the resources, each with and without a trailing slash.
ReadIds == ResourceIds \cup {toggled(identifier) : identifier \in ResourceIds}

\* A quad that a collaborator adds to the metadata of a representation it was given.
addedQuad(identifier) == <<identifier, LIKES, <<"pears">>>>

\* C17: getRepresentation(id) of the store fails with NotFound when a resource
\* exists at id with its trailing slash changed; for an existing container id it
\* returns a representation that is not binary, has the content type internal/quads
\* and has as its data the quads of its metadata, those added after the call
\* included, with one containment edge for each child; for an existing data
\* resource it returns the data of the accessor's getData.
C17_GetRepresentation ==
  \A id \in ReadIds :
    LET r == Store_getRepresentation(accessor, id)
        rep == r.representation
        later == [rep EXCEPT !.metadata = addQuads(@, {addedQuad(id)})]
    IN /\ exists(accessor, toggled(id)) => r.err = "NotFound"
       /\ (exists(accessor, id) /\ endsWith(id, <<"/">>)) =>
            /\ r.err = "none"
            /\ ~rep.binary
            /\ getAll(rep.metadata, CONTENT_TYPE) = {INTERNAL_QUADS}
            /\ dataOf(rep) = rep.metadata.quads
            /\ dataOf(later) = rep.metadata.quads \cup {addedQuad(id)}
            /\ getAll(rep.metadata, LDP_contains) = childrenOf(accessor, id)
       /\ (exists(accessor, id) /\ ~endsWith(id, <<"/">>)) =>
            /\ r.err = "none"
            /\ dataOf(rep) = acc_getData(accessor, id).data

\* C22: with the file backend, addResource and setRepresentation given a
\* representation that is not binary, on an identifier under the base, fail with
\* UnsupportedMediaType, leave the backend as it was and draw no new name; the
\* in-memory backend refuses no representation.
C22_OnlyBinaryInFiles ==
  [][(/\ last'.op \in {"addResource", "setRepresentation"}
      /\ startsWith(last'.identifier, base)
      /\ ~last'.representation.binary)
       => IF backend = "file"
          THEN /\ last'.err = "UnsupportedMediaType"
               /\ fs' = fs /\ store' = store /\ uuids' = uuids
          ELSE /\ Mem_canHandle(last'.representation) = "none"
               /\ last'.err # "UnsupportedMediaType"]_vars

\* addResource was refused so on the file backend, in a container with a child.
C22_Witness ==
  /\ backend = "file"
  /\ last.op = "addResource"
  /\ last.identifier = path(<<"c", "/">>)
  /\ ~last.representation.binary
  /\ last.err = "UnsupportedMediaType"
  /\ exists(accessor, path(<<"c", "/", "x">>))

\* The root container is there: getMetadata of the base succeeds with the types of
\* a container.
rootExists ==
  LET m == acc_getMetadata(accessor, base) IN
  /\ m.err = "none"
  /\ isExistingContainer(m.metadata).err = "none"
  /\ isExistingContainer(m.metadata).value

\* C23: deleteResource of the store on the root fails with MethodNotAllowed and
\* leaves the backend as it was, and after every sequence of store operations
\* getMetadata of the base succeeds and reports a container.
C23_RootAlwaysExists ==
  /\ []rootExists
  /\ [][(last'.op = "deleteResource" /\ last'.identifier = base)
          => (last'.err = "MethodNotAllowed" /\ store' = store /\ fs' = fs)]_vars

\* The root was written to, has no child, and its deletion was refused.
C23_Witness ==
  /\ backend = "file"
  /\ last.op = "deleteResource"
  /\ last.identifier = base
  /\ last.err = "MethodNotAllowed"
  /\ fs_lstat(fs, getMetadataPath(mapUrlToFilePath(base).path)).err = "none"
  /\ getAll(acc_getMetadata(accessor, base).metadata, LDP_contains) = {}
  /\ rootExists

\* addResource was called on a parent under the base that exists in neither form,
\* with a representation the backend can handle.
AddedToMissingParent ==
  /\ last'.op = "addResource"
  /\ startsWith(last'.identifier, base)
  /\ absent(accessor, last'.identifier)
  /\ acc_canHandle(accessor, last'.representation) = "none"

\* C24: addResource on a parent that exists in neither slash form succeeds when the
\* parent's identifier ends in a slash, and then the parent and its missing
\* ancestors are containers and the new resource exists in the parent; it fails
\* with NotFound and leaves the backend as it was when the identifier does not end in
\* a slash.
C24_AddToMissingParent ==
  [][AddedToMissingParent
       => IF endsWith(last'.identifier, <<"/">>)
          THEN /\ last'.err = "none"
               /\ getContainer(last'.newID).path = last'.identifier
               /\ \A c \in Range(ancestors(last'.newID)) : isContainerAt(accessor', c)
               /\ exists(accessor', last'.newID)
          ELSE last'.err = "NotFound" /\ store' = store /\ fs' = fs]_vars

\* A resource was added to a missing parent two levels deep.
C24_Witness ==
  /\ last.op = "addResource"
  /\ last.identifier = path(<<"c", "/", "d", "/">>)
  /\ last.err = "none"
  /\ last.newID = path(<<"c", "/", "d", "/", "x">>)
  /\ getAll(acc_getMetadata(accessor, path(<<"c", "/">>)).metadata, LDP_contains)
       = {path(<<"c", "/", "d", "/">>)}
  /\ getAll(acc_getMetadata(accessor, last.identifier).metadata, LDP_contains) = {last.newID}
  /\ ~exists(accessor, path(<<"x">>))

\* C25: addResource on an identifier under the base that names an existing data
\* resource, with or without a trailing slash, and with a representation the backend
\* can handle, fails with MethodNotAllowed and leaves the backend as it was.
C25_NoAddToDataResource ==
  [][(/\ last'.op = "addResource"
      /\ startsWith(last'.identifier, base)
      /\ kindOf(accessor, last'.identifier) = "data"
      /\ acc_canHandle(accessor, last'.representation) = "none")
       => (last'.err = "MethodNotAllowed" /\ store' = store /\ fs' = fs)]_vars

\* A container with a suggested name was refused under a data resource named with a
\* trailing slash.
C25_Witness ==
  /\ last.op = "addResource"
  /\ last.identifier = path(<<"x", "/">>)
  /\ isDefined(last.slug)
  /\ \E q \in last.representation.metadata.quads : q[3] = LDP_Container
  /\ last.err = "MethodNotAllowed"
  /\ kindOf(accessor, path(<<"x">>)) = "data"
  /\ exists(accessor, path(<<"x">>))

\* setRepresentation was called on an identifier under the base with a representation
\* the backend can handle.
SetAccepted ==
  /\ last'.op = "setRepresentation"
  /\ startsWith(last'.identifier, base)
  /\ acc_canHandle(accessor, last'.representation) = "none"

\* A resource exists under the other slash shape of the identifier.
otherShape(a, identifier) == kindOf(a, identifier) # "none" /\ ~shapeAgrees(a, identifier)

\* C26: on both backends setRepresentation fails with Conflict and leaves the backend
\* as it was when a data resource exists at id and id/ is asked for, or a container
\* exists at id/ and id is asked for.
C26_ConflictOnOtherShape ==
  [][(SetAccepted /\ otherShape(accessor, last'.identifier))
       => (last'.err = "Conflict" /\ store' = store /\ fs' = fs)]_vars

\* Data of the kind of what is stored was refused under the name of a data resource
\* with a slash added.
C26_Witness ==
  /\ last.op = "setRepresentation"
  /\ last.identifier = path(<<"x", "/">>)
  /\ \E q \in last.representation.metadata.quads : q[3] = LDP_Resource
  /\ last.err = "Conflict"
  /\ kindOf(accessor, path(<<"x">>)) = "data"
  /\ exists(accessor, path(<<"x">>))

\* The kind of the representation: the declared type, else the identifier's slash.
newKind(identifier, representation) ==
  isNewContainer(representation.metadata, [value |-> identifier])

\* The stored resource is a container.
storedContainer(a, identifier) == kindOf(a, identifier) = "container"

\* C27: when setRepresentation is called on an identifier with nothing stored under
\* its other slash shape, it fails with Conflict if the identifier exists and the kind
\* of the new representation (its declared type, else the identifier's trailing slash)
\* differs from the stored kind; otherwise it fails with Unsupported if the new kind
\* disagrees with the identifier's trailing slash; in both cases the backend is left
\* as it was, with no ancestor container created.
C27_KindChecks ==
  [][(SetAccepted /\ ~otherShape(accessor, last'.identifier))
       => LET id == last'.identifier
              isContainer == newKind(id, last'.representation)
          IN IF exists(accessor, id) /\ isContainer # storedContainer(accessor, id)
             THEN last'.err = "Conflict" /\ store' = store /\ fs' = fs
             ELSE isContainer # endsWith(id, <<"/">>)
                    => (last'.err = "Unsupported" /\ store' = store /\ fs' = fs)]_vars

\* A container was refused under the slash-less name of a stored data resource: the
\* kinds differ and the shape disagrees as well, and the answer is Conflict.
C27_Witness ==
  /\ last.op = "setRepresentation"
  /\ last.identifier = path(<<"x">>)
  /\ newKind(last.identifier, last.representation)
  /\ kindOf(accessor, path(<<"x">>)) = "data"
  /\ last.err = "Conflict"

\* The body of the representation states a containment edge.
statesContainment(representation) ==
  /\ parseBody(representation.data).err = "none"
  /\ \E quad \in parseBody(representation.data).quads : quad[2] = LDP_contains

\* A container with a containment edge in its body was given to addResource or to
\* setRepresentation under the base.
WroteContainment ==
  /\ last'.op \in {"addResource", "setRepresentation"}
  /\ startsWith(last'.identifier, base)
  /\ acc_canHandle(accessor, last'.representation) = "none"
  /\ isExistingContainer(last'.representation.metadata).err = "none"
  /\ isExistingContainer(last'.representation.metadata).value
  /\ statesContainment(last'.representation)

\* The checks that come before the write let the call through: the parent of
\* addResource is a container or is missing and named with a slash; the identifier of
\* setRepresentation ends in a slash and is a container or is missing.
ReachesWrite ==
  LET id == last'.identifier IN
  IF last'.op = "addResource"
  THEN \/ isContainerAt(accessor, id)
       \/ absent(accessor, id) /\ endsWith(id, <<"/">>)
  ELSE /\ endsWith(id, <<"/">>)
       /\ kindOf(accessor, id) \in {"none", "container"}

\* C28: addResource and setRepresentation of a container whose body states a
\* containment edge fail and leave the backend as it was, no ancestor container
\* created; the failure is Conflict whenever the call gets as far as the write.
C28_NoContainmentInBody ==
  [][WroteContainment
       => /\ last'.err # "none"
          /\ store' = store /\ fs' = fs
          /\ ReachesWrite => last'.err = "Conflict"]_vars

\* Such a container was refused with Conflict by addResource under a missing parent
\* two levels deep, and neither the parent nor its own parent is there afterwards.
C28_Witness ==
  /\ last.op = "addResource"
  /\ last.identifier = path(<<"c", "/", "d", "/">>)
  /\ statesContainment(last.representation)
  /\ last.err = "Conflict"
  /\ kindOf(accessor, path(<<"c", "/", "d", "/">>)) = "none"
  /\ kindOf(accessor, path(<<"c", "/">>)) = "none"

\* The metadata the backend returns for the identifier states a suggested name.
storesHint(a, identifier) ==
  LET m == acc_getMetadata(a, identifier) IN
  /\ m.err = "none"
  /\ \E quad \in m.metadata.quads : quad[2] = HTTP_slug

\* C29: after any sequence of addResource and setRepresentation calls, with or without
\* the suggested name in the metadata of the representation, no metadata that the
\* backend holds states a suggested name.
C29_HintNeverStored == \A id \in ResourceIds : ~storesHint(accessor, id)

\* Both calls found nothing stored before any accessor write, and both have ended.
racedToTheEnd ==
  /\ writers.observed = Writers
  /\ \A w \in Writers : writers.pc[w] = "done"

\* What is stored under the identifier is, bytes and statement, what the call brought.
storedIsOf(w) ==
  LET e == getEntry(store, writers.identifier) IN
  /\ e.err = "none"
  /\ isDataEntry(e.entry)
  /\ e.entry.data = writerRepresentation(w).data
  /\ getAll(e.entry.metadata, LIKES) = {<<w>>}

\* C30: when two setRepresentation calls on one identifier that is not stored both
\* find nothing before either writes, both end without an error, and the resource
\* stored in the end is in full the representation of the call whose
\* writeDataResource assigned its entry last.
C30_LastWriterWins ==
  racedToTheEnd
    => /\ \A w \in Writers : writers.err[w] = "none"
       /\ Len(writers.completed) = 2
       /\ storedIsOf(writers.completed[2])

\* C31: on the in-memory backend, whenever a writeDataResource call completes, the
\* entry it assigned can be reached from the root, getData of its identifier
\* succeeds, also when writeContainer or deleteResource ran on the parent container
\* while the data was read.
C31_WrittenIsReachable ==
  [][\A w \in Writers :
       (writers.pc[w] = "drain" /\ writers'.pc[w] = "done" /\ writers'.err[w] = "none")
         => Mem_getData(store', writers.identifier).err = "none"]_vars

\* C32: a deleteResource call of the store that completes without an error never
\* removes a resource in the container whose write had completed before the
\* accessor removed the container.
C32_OnlyEmptyDeleted ==
  [][(writers.deleter.pc = "remove" /\ writers'.deleter = [pc |-> "done", err |-> "none"])
       => ~\E w \in Writers :
             /\ writers.pc[w] = "done" /\ writers.err[w] = "none"
             /\ getEntry(store, writers.identifier).err = "none"
             /\ getEntry(store', writers.identifier).err # "none"]_vars

\* A container that the identifier lies in is stored as a data resource.
hasDataAncestor(a, identifier) ==
  \E container \in Range(ancestors(identifier)) : kindOf(a, container) = "data"

\* A write of the store that has containers to create: addResource on a missing
\* parent named with a slash, or setRepresentation on a missing identifier whose kind
\* agrees with its slash, with a representation the backend can handle and, for a
\* container, a body of RDF without containment edges.
NeedsContainers ==
  /\ last'.op \in {"addResource", "setRepresentation"}
  /\ startsWith(last'.identifier, base)
  /\ acc_canHandle(accessor, last'.representation) = "none"
  /\ kindOf(accessor, last'.identifier) = "none"
  /\ isNewContainer(last'.representation.metadata,
                    IF last'.op = "addResource" THEN last'.slug
                    ELSE [value |-> last'.identifier])
       => (parseBody(last'.representation.data).err = "none"
             /\ ~statesContainment(last'.representation))
  /\ IF last'.op = "addResource"
     THEN endsWith(last'.identifier, <<"/">>)
     ELSE newKind(last'.identifier, last'.representation) = endsWith(last'.identifier, <<"/">>)

\* The containers the write has to create: those of the new resource, for addResource
\* the parent itself among them.
containersOf(op, identifier) ==
  IF op = "addResource" THEN Append(ancestors(identifier), identifier)
  ELSE ancestors(identifier)

\* C33: when a write of the store has containers to create and one of them is
\* stored as a data resource, the write fails with Conflict and the backend is left
\* as it was: no container has been created.
C33_AncestorConflict ==
  [][(/\ NeedsContainers
      /\ \E container \in Range(containersOf(last'.op, last'.identifier)) :
            kindOf(accessor, container) = "data")
       => (last'.err = "Conflict" /\ store' = store /\ fs' = fs)]_vars

\* A call looked a container up, found it missing and turns to another one.
Ascends(w) ==
  /\ writers.pc[w] = "ancestors"
  /\ writers'.pc[w] = "ancestors"
  /\ writers'.checking[w] # writers.checking[w]

\* C34: the creation of missing containers ends: each container that is looked up
\* after a missing one is a strictly shorter identifier that starts with the base,
\* and every setRepresentation call returns in the end, with a result or a failure.
C34_Terminates ==
  /\ [][\A w \in Writers :
          Ascends(w) => /\ Len(writers'.checking[w]) < Len(writers.checking[w])
                        /\ startsWith(writers'.checking[w], base)]_vars
  /\ <>(\A w \in Writers : writers.pc[w] = "done")

\* Both calls have returned, and a container was missing: it was looked up, then
\* the base, and then it was written.
C34_Witness ==
  /\ \A w \in Writers : writers.pc[w] = "done"
  /\ writers.identifier = path(<<"c", "/", "x">>)
  /\ writers.objects[path(<<"c", "/">>)] > 0
  /\ isContainerAt(accessor, path(<<"c", "/">>))

\* The containment edges that getMetadata of a container reports.
edgesOf(a, container) ==
  LET m == acc_getMetadata(a, container) IN
  IF m.err = "none" THEN getAll(m.metadata, LDP_contains) ELSE {}

\* What is stored for a resource: the result of getRepresentation.
contentOf(a, identifier) ==
  LET r == Store_getRepresentation(a, identifier) IN
  IF r.err = "none" THEN <<dataOf(r.representation), r.representation.metadata>> ELSE <<>>

\* C35: on both backends a setRepresentation that succeeds on an existing container
\* leaves every child of the container existing with the content it had, and the
\* containment edges of the container the same.
C35_UpdateKeepsChildren ==
  [][(/\ last'.op = "setRepresentation"
      /\ last'.err = "none"
      /\ endsWith(last'.identifier, <<"/">>)
      /\ exists(accessor, last'.identifier))
       => /\ \A child \in childrenOf(accessor, last'.identifier) :
               /\ exists(accessor', child)
               /\ contentOf(accessor', child) = contentOf(accessor, child)
          /\ edgesOf(accessor', last'.identifier) = edgesOf(accessor, last'.identifier)]_vars

\* The kind that addResource or setRepresentation gives to writeData.
targetIsContainer ==
  IF last'.op = "addResource"
  THEN isNewContainer(withSlug(last'.representation, last'.slug).metadata, undefined)
  ELSE newKind(last'.identifier, last'.representation)

\* The identifier that a successful addResource or setRepresentation wrote.
targetOf == IF last'.op = "addResource" THEN last'.newID ELSE last'.identifier

\* C36: in every addResource and setRepresentation that writes, the identifier
\* written as a container ends in a slash and the identifier written as a data
\* resource does not, whatever the declared type, the identifier and the suggested
\* name; what is stored there afterwards is of that kind.
C36_KindAgreesWithSlash ==
  [][(last'.op \in {"addResource", "setRepresentation"} /\ last'.err = "none")
       => /\ targetIsContainer = endsWith(targetOf, <<"/">>)
          /\ kindOf(accessor', targetOf) = IF targetIsContainer THEN "container" ELSE "data"]_vars

\* What follows the container's path, with its slash, in an identifier.
nameIn(container, identifier) == slice(identifier, Len(ensureTrailingSlash(container)))

\* C37: the identifier that addResource returns for container c is c's path with a
\* trailing slash, then a name that is not empty and has no slash, then a slash if
\* and only if a container was written; it is never c itself.
C37_ReturnsDirectChild ==
  [][(last'.op = "addResource" /\ last'.err = "none")
       => LET c == ensureTrailingSlash(last'.identifier)
              rest == nameIn(last'.identifier, last'.newID)
              name == trimTrailingSlashes(rest)
          IN /\ startsWith(last'.newID, c)
             /\ last'.newID # c
             /\ name # <<>>
             /\ \A i \in 1..Len(name) : name[i] # "/"
             /\ rest = name \o (IF targetIsContainer THEN <<"/">> ELSE <<>>)]_vars

(***************************************************************************)
(* Properties of the file-system accessor under failing file-system steps. *)
(***************************************************************************)
sidecarOf(identifier) == getMetadataPath(mapUrlToFilePath(identifier).path)

sidecarExists(fsys, identifier) == fs_lstat(fsys, sidecarOf(identifier)).err = "none"

primaryExists(fsys, identifier) ==
  fs_lstat(fsys, mapUrlToFilePath(identifier).path).err = "none"

\* The case of the rollback: the metadata file was written, writing the file itself
\* then failed, and the removal of the metadata file is not itself made to fail.
RolledBack ==
  /\ last.op = "writeDataResource"
  /\ last.sidecar
  /\ last.contentFailed
  /\ "unlinkMeta" \notin last.faults

\* C9: when writeDataResource(id, data, metadata) of the file-system accessor fails in
\* writing the file after it has written the metadata file, the call returns a failure
\* and the metadata file of id does not exist when it returns.
C9_RollbackRemovesSidecar ==
  RolledBack => last.err # "none" /\ ~sidecarExists(fs, last.identifier)

C9_Witness ==
  /\ RolledBack
  /\ last.err = "StreamError"
  /\ ~sidecarExists(fs, last.identifier)
  /\ primaryExists(fs, last.identifier)

\* A metadata file in a directory without the file it belongs to; the metadata file
\* named just metaExtension belongs to the directory it is in.
RECURSIVE hasOrphan(_)
hasOrphan(node) ==
  /\ isDirectory(node)
  /\ \E name \in DOMAIN node.children :
       \/ /\ isFile(node.children[name])
          /\ isMetadataPath(name)
          /\ Len(name) > 1
          /\ SubSeq(name, 1, Len(name) - 1) \notin DOMAIN node.children
       \/ hasOrphan(node.children[name])

\* C10: after any sequence of writeDataResource, writeContainer and deleteResource
\* calls on the file-system accessor, calls that fail at one of their file-system
\* steps included, every metadata file has its file or directory beside it.
C10_NoOrphanedSidecar == ~hasOrphan(fs)

\* The failure of the content-write phase of a writeDataResource step: that of
\* writing the file of the identifier, with the faults of the call.
contentWriteError ==
  writeDataFile(fs, mapUrlToFilePath(last'.identifier).path, [bytes |-> <<"d1">>],
                writeFault(last'.faults, "contentOpen", "contentStream")).err

\* C38: when the content-write phase of writeDataResource of the file-system accessor
\* fails, the call fails with that content-write failure, whether the metadata is
\* omitted, holds only RDF types or holds other quads (the removal of the metadata
\* file is not itself made to fail).
C38_SurfacesContentFailure ==
  [][(last'.op = "writeDataResource" /\ last'.contentFailed
        /\ "unlinkMeta" \notin last'.faults)
       => last'.err = contentWriteError]_vars

\* C39: a deleteResource of the file-system accessor that fails with NotFound or in
\* removing a directory that is not empty leaves the file system as it was.
C39_FailedDeleteChangesNothing ==
  [][(backend = "file" /\ last'.op = "deleteResource"
        /\ last'.err \in {"NotFound", "ENOTEMPTY"})
       => fs' = fs]_vars

====
